---------------------------- MODULE Spec2Model ----------------------------
(***************************************************************************)
(* A model of dmarc-analyzer: the fixed-point decimal type (BigDecimal),   *)
(* the aggregation pass (DmarcAnalyzer.analyze with generateTrendData),    *)
(* the DNS policy lookup (lookupDomainAuthRecords), and the rate fields of *)
(* the HTML report and of the console summary (generateDefaultReport).     *)
(*                                                                         *)
(* JavaScript runs each synchronous stretch of a function to completion,   *)
(* so one action of the model is one stretch of code between two awaits.   *)
(***************************************************************************)
EXTENDS Integers, Sequences, FiniteSets, TLC

(***************************************************************************)
(* Bounds of the model.                                                    *)
(***************************************************************************)
\* the longest input sequence of report records
MaxRecords == 2

(***************************************************************************)
(* Generic helpers.                                                        *)
(***************************************************************************)
\* the value of an absent optional field (JavaScript's undefined)
Undefined == "undefined"

RECURSIVE Pow10(_)
Pow10(k) == IF k <= 0 THEN 1 ELSE 10 * Pow10(k - 1)

Abs(x) == IF x < 0 THEN -x ELSE x

Max2(a, b) == IF a >= b THEN a ELSE b

\* BigInt division truncates toward zero
TruncDiv(a, b) ==
    IF (a >= 0) = (b > 0) THEN Abs(a) \div Abs(b) ELSE -(Abs(a) \div Abs(b))

\* BigInt remainder takes the sign of the dividend
TruncRem(a, b) == a - b * TruncDiv(a, b)

\* Map.set / Map.get(...) || dflt on a map held as a function
MapSet(m, k, v) == [x \in (DOMAIN m) \cup {k} |-> IF x = k THEN v ELSE m[x]]

MapGetOr(m, k, dflt) == IF k \in DOMAIN m THEN m[k] ELSE dflt

EmptyMap == [x \in {} |-> 0]

RECURSIVE SeqSum(_)
SeqSum(s) == IF s = << >> THEN 0 ELSE Head(s) + SeqSum(Tail(s))

RECURSIVE SetSum(_, _)
SetSum(f, S) ==
    IF S = {} THEN 0
    ELSE LET x == CHOOSE y \in S : TRUE IN f[x] + SetSum(f, S \ {x})

\* e, with v evaluated first: an iteration of a loop of the code has finished
\* before the next one starts, while the model checker evaluates the argument
\* of an operator only when it is first used
InOrder(v, e) == IF v = v THEN e ELSE e

\* the sequences over S of length at most n
SeqsUpTo(S, n) == UNION {[1..k -> S] : k \in 0..n}

\* Array.prototype.slice(0, n)
Slice(s, n) == SubSeq(s, 1, IF Len(s) < n THEN Len(s) ELSE n)

(***************************************************************************)
(* BigDecimal: a decimal held as the integer n = value * 10^DEC.           *)
(* The source sets DEC to 18; the model keeps every operator parametric in *)
(* DEC and evaluates it with 3 decimals so that scaled integers and their  *)
(* products stay inside the model checker's integers.                      *)
(***************************************************************************)
DEC == 3

ROUNDED == TRUE

SHIFT == Pow10(DEC)

\* new BigDecimal(value) for a safe integer or an integer string
FromInteger(k) == k * SHIFT

\* the quotient cut toward zero, as #divRound gives it with ROUNDED off
divRoundTruncating(dividend, divisor) == TruncDiv(dividend, divisor)

\* #divRound, for a divisor other than zero
divRound(dividend, divisor) ==
    TruncDiv(dividend, divisor)
    + (IF ROUNDED THEN TruncRem(TruncDiv(dividend * 2, divisor), 2) ELSE 0)

\* divide(num), num already normalised to its scaled integer; isLiteralOne is
\* the short-circuit taken when num is the literal 1 or "1"
divide(n, num, isLiteralOne) ==
    IF isLiteralOne THEN n ELSE divRound(n * SHIFT, num)

\* divide(num) throws: the BigInt division of #divRound by a zero divisor
\* raises a RangeError
divideThrows(num, isLiteralOne) == ~isLiteralOne /\ num = 0

\* multiply(num) with a number that is a safe integer (and not 1, 0, -1)
MultiplySafeInteger(n, k) ==
    IF k = 1 THEN n
    ELSE IF k = 0 THEN 0
    ELSE IF k = -1 THEN -n
    ELSE divRound(n * k, 1)

\* multiply(num) with a decimal string holding the integer k
MultiplyIntegerString(n, k) ==
    IF k = 1 THEN n
    ELSE IF k = 0 THEN 0
    ELSE IF k = -1 THEN -n
    ELSE divRound(n * FromInteger(k), SHIFT)

\* gt(num) with a safe integer num
gt(n, k) == n > k * SHIFT

\* the digits of v, most significant first, left-padded with zeros to width w
RECURSIVE PadDigits(_, _)
PadDigits(v, w) ==
    IF w = 0 THEN << >> ELSE Append(PadDigits(v \div 10, w - 1), v % 10)

RECURSIVE trimRightZeros(_)
trimRightZeros(s) ==
    IF s # << >> /\ s[Len(s)] = 0 THEN trimRightZeros(SubSeq(s, 1, Len(s) - 1))
    ELSE s

formatFrac(rem) == IF rem = 0 THEN << >> ELSE trimRightZeros(PadDigits(rem, DEC))

\* toString(): the canonical string, held as sign, integer part and the
\* sequence of fractional digits (empty when there is no decimal point)
toString(n) ==
    LET neg == n < 0
        abs == IF neg THEN -n ELSE n
        intPartBig == abs \div SHIFT
        fracPartBig == abs - intPartBig * SHIFT
    IN [neg |-> neg, int |-> intPartBig, frac |-> formatFrac(fracPartBig)]

ZERO_PAD == [i \in 1..DEC |-> 0]

\* toFixed(length): the string with the fractional digits cut or padded
toFixed(n, length) ==
    LET str == toString(n) IN
    IF n = 0 \/ n = SHIFT
    THEN [neg |-> str.neg, int |-> str.int,
          frac |-> IF length = 0 THEN << >> ELSE Slice(ZERO_PAD, length)]
    ELSE LET frac == Slice(str.frac, length)
             pad == IF Len(frac) < length
                    THEN Slice(ZERO_PAD, length - Len(frac)) ELSE << >>
         IN [neg |-> str.neg, int |-> str.int, frac |-> frac \o pad]

RECURSIVE DigitsValue(_)
DigitsValue(ds) ==
    IF ds = << >> THEN 0 ELSE 10 * DigitsValue(SubSeq(ds, 1, Len(ds) - 1)) + ds[Len(ds)]

\* toNumber(): parseFloat / parseInt of the canonical string; the number is
\* held as the fraction num / den that the string denotes
toNumber(n) ==
    LET str == toString(n)
        mag == str.int * Pow10(Len(str.frac)) + DigitsValue(str.frac)
    IN [num |-> IF str.neg THEN -mag ELSE mag, den |-> Pow10(Len(str.frac))]

\* a plain JavaScript integer as a number
Num(k) == [num |-> k, den |-> 1]

(***************************************************************************)
(* Report records (reports/types.ts).  A source address is held as its     *)
(* sequence of octets, so that "starts with 209.85." is a prefix test; a   *)
(* timestamp is in epoch seconds.                                          *)
(***************************************************************************)
DmarcRecordRow(sourceIp, count, disposition, dkim, spf, headerFrom, reason, comment) ==
    [sourceIp |-> sourceIp, count |-> count, disposition |-> disposition,
     dkim |-> dkim, spf |-> spf, headerFrom |-> headerFrom,
     reason |-> reason, comment |-> comment]

DmarcRecord(domain, orgName, reportId, begin, end, rows) ==
    [domain |-> domain, orgName |-> orgName, reportId |-> reportId,
     dateRange |-> [begin |-> begin, end |-> end], records |-> rows]

\* the comments of the model that contain the substring "arc=pass"
CommentsWithArcPass == {"arc=pass", "forwarded arc=pass"}

\* comment?.includes("arc=pass"): false for an absent comment
IncludesArcPass(comment) == comment # Undefined /\ comment \in CommentsWithArcPass

(***************************************************************************)
(* DmarcAnalyzer.enrichIpData                                              *)
(***************************************************************************)
KNOWN_PROVIDERS ==
    << [name |-> "Google", ranges |-> << <<209, 85>>, <<172, 217>>, <<142, 250>>, <<74, 125>> >>],
       [name |-> "Microsoft", ranges |-> << <<40, 92>>, <<40, 107>>, <<52, 96>>, <<65, 55>> >>],
       [name |-> "Amazon SES", ranges |-> << <<54, 240>>, <<23, 249>>, <<23, 251>> >>],
       [name |-> "Mailchimp", ranges |-> << <<198, 2>>, <<205, 201>> >>],
       [name |-> "SendGrid", ranges |-> << <<167, 89>>, <<169, 45>> >>] >>

PRIVATE_IP_RANGES ==
    << <<192, 168>>, <<10>>, <<172, 16>>, <<172, 17>>, <<172, 18>>, <<172, 19>>,
       <<172, 20>>, <<172, 21>>, <<172, 22>>, <<172, 23>>, <<172, 24>>, <<172, 25>>,
       <<172, 26>>, <<172, 27>>, <<172, 28>>, <<172, 29>>, <<172, 30>>, <<172, 31>> >>

\* ip.startsWith(range) for a range that ends with a dot
StartsWith(ip, range) ==
    Len(range) <= Len(ip) /\ SubSeq(ip, 1, Len(range)) = range

SomeRange(ip, ranges) == \E i \in 1..Len(ranges) : StartsWith(ip, ranges[i])

enrichIpData(ip) ==
    LET hits == {i \in 1..Len(KNOWN_PROVIDERS) : SomeRange(ip, KNOWN_PROVIDERS[i].ranges)}
    IN IF hits # {}
       THEN LET first == CHOOSE i \in hits : \A j \in hits : i <= j
            IN [ip |-> ip, provider |-> KNOWN_PROVIDERS[first].name,
                isKnownProvider |-> TRUE, riskLevel |-> "low"]
       ELSE [ip |-> ip, provider |-> "Unknown", isKnownProvider |-> FALSE,
             riskLevel |-> IF SomeRange(ip, PRIVATE_IP_RANGES) THEN "medium" ELSE "high"]

(***************************************************************************)
(* The pass classification of a row, as analyze and generateTrendData both *)
(* compute it.                                                             *)
(***************************************************************************)
dkimPass(recordRow) == recordRow.dkim = "pass"

spfPass(recordRow) == recordRow.spf = "pass"

\* a variant that does not look at the reason
arcPassAnyReason(recordRow) == IncludesArcPass(recordRow.comment)

arcPass(recordRow) ==
    recordRow.reason = "local_policy" /\ IncludesArcPass(recordRow.comment)

passed(recordRow) == dkimPass(recordRow) \/ spfPass(recordRow) \/ arcPass(recordRow)

(***************************************************************************)
(* DmarcAnalyzer.generateTrendData                                         *)
(***************************************************************************)
SecondsPerDay == 86400

\* dateLikeToDateUtc(timestamp * 1000).toISOString().split("T")[0]: the UTC
\* calendar day, held as the number of the day since the epoch (ISO dates
\* compare as their day numbers do).  dateLikeToDateUtc takes a number below
\* 1e12 for seconds, so a timestamp before 1e9 is multiplied by 1000 twice.
DateKey(timestamp) ==
    IF timestamp < 1000000000
    THEN (timestamp * 1000) \div SecondsPerDay
    ELSE timestamp \div SecondsPerDay

\* a variant that divides by the days between begin and end, not by the
\* days visited
AmortizedCountBySpan(count, begin, end) ==
    (count * SecondsPerDay) \div Max2(end - begin, SecondsPerDay)

\* Math.floor(count / ((end - begin) / 86400 + 1)), computed on the exact
\* quotient: count / ((end - begin + 86400) / 86400)
AmortizedCount(count, begin, end) ==
    (count * SecondsPerDay) \div ((end - begin) + SecondsPerDay)

\* the inner loop over the rows of one record for one day bucket
RECURSIVE AddRowsToDay(_, _, _)
AddRowsToDay(dayData, record, k) ==
    IF k > Len(record.records) THEN dayData
    ELSE LET recordRow == record.records[k]
             count == AmortizedCount(recordRow.count, record.dateRange.begin,
                                     record.dateRange.end)
             next == [passed |-> dayData.passed + (IF passed(recordRow) THEN count ELSE 0),
                      failed |-> dayData.failed + (IF passed(recordRow) THEN 0 ELSE count),
                      total |-> dayData.total + count]
         IN InOrder(next, AddRowsToDay(next, record, k + 1))

\* the loop over the timestamps begin, begin + 86400, ... <= end of one record
RECURSIVE AddRecordDays(_, _, _)
AddRecordDays(dailyData, record, timestamp) ==
    IF timestamp > record.dateRange.end THEN dailyData
    ELSE LET dateKey == DateKey(timestamp)
             dayData == MapGetOr(dailyData, dateKey, [passed |-> 0, failed |-> 0, total |-> 0])
             next == MapSet(dailyData, dateKey, AddRowsToDay(dayData, record, 1))
         IN InOrder(next, AddRecordDays(next, record, timestamp + SecondsPerDay))

RECURSIVE DailyData(_)
DailyData(records) ==
    IF records = << >> THEN EmptyMap
    ELSE LET front == SubSeq(records, 1, Len(records) - 1)
             record == records[Len(records)]
         IN AddRecordDays(DailyData(front), record, record.dateRange.begin)

\* a variant that lets a bucket of total 0 through
TrendRateGuardLoose(data) == data.total >= 0

\* the guard of the pass rate of a trend point
TrendRateGuard(data) == data.total > 0

\* one trend point; passRate is "throws" when divide raises
TrendPoint(date, data) ==
    [date |-> date, passed |-> data.passed, failed |-> data.failed, total |-> data.total,
     passRate |->
        IF TrendRateGuard(data)
        THEN IF divideThrows(FromInteger(data.total), data.total = 1)
             THEN [throws |-> "RangeError"]
             ELSE toNumber(MultiplyIntegerString(
                      divide(FromInteger(data.passed), FromInteger(data.total),
                             data.total = 1), 100))
        ELSE Num(0)]

\* the keys of a map in ascending order
RECURSIVE SortedKeys(_)
SortedKeys(S) ==
    IF S = {} THEN << >>
    ELSE LET m == CHOOSE x \in S : \A y \in S : x <= y
         IN <<m>> \o SortedKeys(S \ {m})

generateTrendData(records) ==
    LET dailyData == DailyData(records)
        keys == SortedKeys(DOMAIN dailyData)
    IN [i \in 1..Len(keys) |-> TrendPoint(keys[i], dailyData[keys[i]])]

(***************************************************************************)
(* DmarcAnalyzer.analyze: the counting pass.  The accumulator holds the    *)
(* AnalysisResult under construction and the failingSources map, the       *)
(* latter as the sequence of its entries in insertion order.               *)
(***************************************************************************)
\* Number.MAX_SAFE_INTEGER (2^53 - 1) as the largest integer of the model;
\* it is above every timestamp, which is all the code uses it for
MAX_SAFE_INTEGER == 2147483647

InitialResult(records, trends) ==
    [uniqueAnalyzedDomains |-> << >>,
     domainAuthRecords |-> << >>,
     totalReports |-> Len(records),
     totalMessages |-> 0,
     passedMessages |-> 0,
     failedMessages |-> 0,
     quarantinedMessages |-> 0,
     rejectedMessages |-> 0,
     topFailingSources |-> << >>,
     failureDetails |-> << >>,
     domainAlignment |-> [dkimAligned |-> 0, spfAligned |-> 0, bothAligned |-> 0,
                          arcAligned |-> 0, noneAligned |-> 0],
     reportingOrgs |-> {},
     dateRange |-> [earliest |-> MAX_SAFE_INTEGER, latest |-> 0],
     trends |-> trends,
     failureReasons |-> EmptyMap,
     subdomainAnalysis |-> EmptyMap,
     volumeByProvider |-> EmptyMap]

InitialAcc(records, trends) ==
    [result |-> InitialResult(records, trends), failingSources |-> << >>]

\* the alignment bucket of a passed row
AlignmentBucket(recordRow) ==
    IF dkimPass(recordRow) /\ spfPass(recordRow) THEN "bothAligned"
    ELSE IF dkimPass(recordRow) THEN "dkimAligned"
    ELSE "spfAligned"

\* a variant that puts a row passed by ARC alone in the ARC counter only
AlignRowArcApart(domainAlignment, recordRow) ==
    IF passed(recordRow)
    THEN IF ~dkimPass(recordRow) /\ ~spfPass(recordRow)
         THEN [domainAlignment EXCEPT !.arcAligned = @ + recordRow.count]
         ELSE [domainAlignment EXCEPT ![AlignmentBucket(recordRow)] = @ + recordRow.count]
    ELSE [domainAlignment EXCEPT !.noneAligned = @ + recordRow.count]

\* domainAlignment after one row
AlignRow(domainAlignment, recordRow) ==
    IF passed(recordRow)
    THEN LET bucket == AlignmentBucket(recordRow)
             a1 == [domainAlignment EXCEPT ![bucket] = @ + recordRow.count]
         IN IF arcPass(recordRow)
            THEN [a1 EXCEPT !.arcAligned = @ + recordRow.count]
            ELSE a1
    ELSE [domainAlignment EXCEPT !.noneAligned = @ + recordRow.count]

\* a variant that overwrites the count of a known address
TrackFailingSourceOverwrite(failingSources, recordRow) ==
    IF \E i \in 1..Len(failingSources) : failingSources[i].ip = recordRow.sourceIp
    THEN [i \in 1..Len(failingSources) |->
            IF failingSources[i].ip = recordRow.sourceIp
            THEN [failingSources[i] EXCEPT !.count = recordRow.count]
            ELSE failingSources[i]]
    ELSE Append(failingSources,
                [ip |-> recordRow.sourceIp, count |-> recordRow.count,
                 disposition |-> recordRow.disposition])

\* failingSources after one failed row: the entry of the address keeps its
\* place and its first disposition, a new address is appended
TrackFailingSource(failingSources, recordRow) ==
    IF \E i \in 1..Len(failingSources) : failingSources[i].ip = recordRow.sourceIp
    THEN [i \in 1..Len(failingSources) |->
            IF failingSources[i].ip = recordRow.sourceIp
            THEN [failingSources[i] EXCEPT !.count = @ + recordRow.count]
            ELSE failingSources[i]]
    ELSE Append(failingSources,
                [ip |-> recordRow.sourceIp, count |-> recordRow.count,
                 disposition |-> recordRow.disposition])

FailureDetail(record, recordRow) ==
    [ip |-> recordRow.sourceIp,
     provider |-> enrichIpData(recordRow.sourceIp).provider,
     riskLevel |-> enrichIpData(recordRow.sourceIp).riskLevel,
     disposition |-> recordRow.disposition,
     count |-> recordRow.count,
     headerFrom |-> recordRow.headerFrom,
     dkim |-> recordRow.dkim,
     spf |-> recordRow.spf,
     dateRange |-> record.dateRange,
     reason |-> recordRow.reason,
     comment |-> recordRow.comment,
     reportId |-> record.reportId]

\* the body of the loop over the rows of a record
CountRow(acc, record, recordRow) ==
    LET r == acc.result
        isPassed == passed(recordRow)
        sub == MapGetOr(r.subdomainAnalysis, recordRow.headerFrom,
                        [passed |-> 0, failed |-> 0])
        sub1 == IF isPassed THEN [sub EXCEPT !.passed = @ + recordRow.count]
                ELSE [sub EXCEPT !.failed = @ + recordRow.count]
    IN [result |->
          [r EXCEPT
             !.totalMessages = @ + recordRow.count,
             !.subdomainAnalysis =
                 IF recordRow.headerFrom # record.domain
                 THEN MapSet(@, recordRow.headerFrom, sub1) ELSE @,
             !.passedMessages = IF isPassed THEN @ + recordRow.count ELSE @,
             !.failedMessages = IF isPassed THEN @ ELSE @ + recordRow.count,
             !.domainAlignment = AlignRow(@, recordRow),
             !.failureReasons =
                 IF ~isPassed /\ recordRow.reason # Undefined
                 THEN MapSet(@, recordRow.reason,
                             MapGetOr(@, recordRow.reason, 0) + recordRow.count)
                 ELSE @,
             !.failureDetails =
                 IF isPassed THEN @ ELSE Append(@, FailureDetail(record, recordRow)),
             !.quarantinedMessages =
                 IF recordRow.disposition = "quarantine" THEN @ + recordRow.count ELSE @,
             !.rejectedMessages =
                 IF recordRow.disposition = "reject" THEN @ + recordRow.count ELSE @],
        failingSources |->
          IF isPassed THEN acc.failingSources
          ELSE TrackFailingSource(acc.failingSources, recordRow)]

RECURSIVE CountRows(_, _, _)
CountRows(acc, record, k) ==
    IF k > Len(record.records) THEN acc
    ELSE LET next == CountRow(acc, record, record.records[k])
         IN InOrder(next, CountRows(next, record, k + 1))

RECURSIVE reportVolume(_)
reportVolume(rows) ==
    IF rows = << >> THEN 0 ELSE Head(rows).count + reportVolume(Tail(rows))

\* a variant that pushes the domain of every record
AddAnalyzedDomainAlways(uniqueAnalyzedDomains, domain) ==
    Append(uniqueAnalyzedDomains, domain)

\* if (!uniqueAnalyzedDomains.includes(record.domain)) push(record.domain)
AddAnalyzedDomain(uniqueAnalyzedDomains, domain) ==
    IF \E i \in 1..Len(uniqueAnalyzedDomains) : uniqueAnalyzedDomains[i] = domain
    THEN uniqueAnalyzedDomains ELSE Append(uniqueAnalyzedDomains, domain)

\* the body of the loop over the records
CountRecord(acc, record) ==
    LET r == acc.result
        head ==
          [r EXCEPT
             !.reportingOrgs = @ \cup {record.orgName},
             !.dateRange.earliest =
                 IF record.dateRange.begin < @ THEN record.dateRange.begin ELSE @,
             !.dateRange.latest =
                 IF record.dateRange.end > @ THEN record.dateRange.end ELSE @,
             !.uniqueAnalyzedDomains = AddAnalyzedDomain(@, record.domain),
             !.volumeByProvider =
                 MapSet(@, record.orgName,
                        MapGetOr(@, record.orgName, 0) + reportVolume(record.records))]
    IN CountRows([acc EXCEPT !.result = head], record, 1)

RECURSIVE CountRecords(_, _)
CountRecords(acc, records) ==
    IF records = << >> THEN acc
    ELSE LET next == CountRecord(acc, Head(records))
         IN InOrder(next, CountRecords(next, Tail(records)))

(***************************************************************************)
(* DmarcAnalyzer.analyze: the ranking of the failing sources.              *)
(***************************************************************************)
\* the number of sources kept by slice(0, 10)
TopSources == 10

\* a variant that sorts in ascending order
CompareSourcesAscending(a, b) == a.count - b.count

\* the comparator of the sort: a negative result puts a before b
CompareSources(a, b) == b.count - a.count

\* Array.prototype.sort is stable: an entry goes behind every entry that
\* the comparator does not put after it
InsertSource(front, x) ==
    LET keep == {i \in 1..Len(front) : CompareSources(front[i], x) <= 0}
        at == IF keep = {} THEN 0 ELSE CHOOSE i \in keep : \A j \in keep : j <= i
    IN SubSeq(front, 1, at) \o <<x>> \o SubSeq(front, at + 1, Len(front))

RECURSIVE InsertSources(_, _, _)
InsertSources(front, s, k) ==
    IF k > Len(s) THEN front
    ELSE LET next == InsertSource(front, s[k])
         IN InOrder(next, InsertSources(next, s, k + 1))

SortSources(s) == InsertSources(<< >>, s, 1)

topFailingIps(failingSources) == Slice(SortSources(failingSources), TopSources)

EnrichSource(source) ==
    LET ipInfo == enrichIpData(source.ip)
    IN [ip |-> source.ip, count |-> source.count, disposition |-> source.disposition,
        provider |-> ipInfo.provider, isKnownProvider |-> ipInfo.isKnownProvider,
        riskLevel |-> ipInfo.riskLevel]

topFailingSources(failingSources) ==
    LET top == topFailingIps(failingSources)
    IN [i \in 1..Len(top) |-> EnrichSource(top[i])]

(***************************************************************************)
(* lookupDomainAuthRecords (dns/lookup.ts) and the DNS it queries.  A      *)
(* string of a DNS answer is held as its sequence of whitespace-separated  *)
(* tokens; the string predicates the code applies to these strings are     *)
(* tabulated for the tokens of the model.                                  *)
(***************************************************************************)
\* String.prototype.toLowerCase on a token
toLowerCase(token) ==
    IF token = "V=SPF1" THEN "v=spf1"
    ELSE IF token = "v=DMARC1;" THEN "v=dmarc1;"
    ELSE IF token = "ASPMX.L.GOOGLE.COM" THEN "aspmx.l.google.com"
    ELSE token

\* hay.includes(needle), for the tokens and needles of the model
Includes(hay, needle) ==
    <<hay, needle>> \in
        { <<"include:_spf.google.com", "_spf.google.com">>,
          <<"include:spf.protection.outlook.com", "spf.protection.outlook.com">>,
          <<"include:_spf.mail.yahoo.com", "_spf.mail.yahoo.com">>,
          <<"aspmx.l.google.com", "aspmx.l.google.com">>,
          <<"example-com.mail.protection.outlook.com", "mail.protection.outlook.com">>,
          <<"redirect=_spf.example.net", "=">> }

\* str.startsWith(prefix) on a string held as tokens: decided by its first token
StartsWithToken(str, prefix) ==
    str # << >> /\
    <<str[1], prefix>> \in { <<"v=spf1", "v=spf1">>, <<"v=dmarc1;", "v=dmarc1">> }

\* the string with its first token lower-cased (all that startsWith looks at)
LowerFirst(str) ==
    IF str = << >> THEN str ELSE <<toLowerCase(str[1])>> \o Tail(str)

\* r.join(""): the chunks of one TXT record, concatenated
RECURSIVE JoinChunks(_)
JoinChunks(chunks) ==
    IF chunks = << >> THEN << >> ELSE Head(chunks) \o JoinChunks(Tail(chunks))

\* records.map((r) => r.join(""))
JoinAll(txtRecords) == [i \in 1..Len(txtRecords) |-> JoinChunks(txtRecords[i])]

\* strs.join(" "): a separator token stands between two joined strings
RECURSIVE JoinWithSpace(_)
JoinWithSpace(strs) ==
    IF strs = << >> THEN << >>
    ELSE IF Len(strs) = 1 THEN strs[1]
    ELSE strs[1] \o <<" ">> \o JoinWithSpace(Tail(strs))

\* an optional value of an object: absent (undefined), or present
None == [present |-> FALSE]

Some(v) == [present |-> TRUE, value |-> v]

\* Array.prototype.find on the lower-cased prefix test; None if there is none
FindStartingWith(strs, prefix) ==
    LET hits == {i \in 1..Len(strs) : StartsWithToken(LowerFirst(strs[i]), prefix)}
    IN IF hits = {} THEN None
       ELSE Some(strs[CHOOSE i \in hits : \A j \in hits : i <= j])

EndsWithAll(token) == token \in {"~all", "-all", "+all", "all"}

RECURSIVE SelectSeq2(_, _)
SelectSeq2(s, keep) ==
    IF s = << >> THEN << >>
    ELSE (IF keep[Head(s)] THEN <<Head(s)>> ELSE << >>) \o SelectSeq2(Tail(s), keep)

parseSpfRecord(record) ==
    IF record = << >> \/ ~StartsWithToken(LowerFirst(record), "v=spf1")
    THEN [valid |-> FALSE]
    ELSE LET rest == Tail(record)
             isMechanism == [t \in {rest[i] : i \in 1..Len(rest)} |->
                                ~EndsWithAll(t) /\ ~Includes(t, "=")]
             alls == {i \in 1..Len(rest) : EndsWithAll(rest[i])}
         IN [valid |-> TRUE,
             mechanisms |-> SelectSeq2(rest, isMechanism),
             all |-> IF alls = {} THEN Undefined
                     ELSE rest[CHOOSE i \in alls : \A j \in alls : j <= i]]

\* parseDkimRecord / parseDmarcRecord never throw; the model keeps validity
parseDkimRecord(record) ==
    [valid |-> \E i \in 1..Len(record) : record[i] = "v=DKIM1;"]

parseDmarcRecord(record) ==
    [valid |-> record # << >> /\ record[1] = "v=DMARC1;" /\
               \E i \in 1..Len(record) : record[i] \in {"p=none;", "p=reject;"}]

KNOWN_PROVIDER_DKIM_SELECTORS ==
    << [provider |-> "Google Workspace", selectors |-> <<"google">>,
        spfIncludes |-> <<"_spf.google.com">>, mxDomains |-> <<"aspmx.l.google.com">>],
       [provider |-> "Microsoft 365", selectors |-> <<"selector1", "selector2">>,
        spfIncludes |-> <<"spf.protection.outlook.com">>,
        mxDomains |-> <<"mail.protection.outlook.com">>],
       [provider |-> "Yahoo", selectors |-> <<"default", "selector1">>,
        spfIncludes |-> <<"_spf.mail.yahoo.com">>, mxDomains |-> << >>],
       [provider |-> "SendGrid", selectors |-> <<"s1", "s2">>,
        spfIncludes |-> <<"_spf.sendgrid.net">>, mxDomains |-> << >>],
       [provider |-> "Mailchimp", selectors |-> <<"k1">>,
        spfIncludes |-> <<"servers.mcsv.net">>, mxDomains |-> << >>] >>

\* needles.some((n) => hays.some((h) => h.includes(n)))
SomeIncludes(needles, hays) ==
    \E i \in 1..Len(needles) : \E j \in 1..Len(hays) : Includes(hays[j], needles[i])

\* Array.from(new Set(raw)): the first occurrence of each element, in order
RECURSIVE Dedup(_)
Dedup(raw) ==
    IF raw = << >> THEN << >>
    ELSE LET front == Dedup(SubSeq(raw, 1, Len(raw) - 1))
             x == raw[Len(raw)]
         IN IF \E i \in 1..Len(front) : front[i] = x THEN front ELSE Append(front, x)

RECURSIVE selectorsToTryRaw(_, _, _)
selectorsToTryRaw(k, spfMechanisms, mxRecords) ==
    IF k > Len(KNOWN_PROVIDER_DKIM_SELECTORS) THEN <<"default">>
    ELSE LET provider == KNOWN_PROVIDER_DKIM_SELECTORS[k]
             matchesSpf == SomeIncludes(provider.spfIncludes, spfMechanisms)
             matchesMx == SomeIncludes(provider.mxDomains, mxRecords)
         IN (IF matchesSpf \/ matchesMx THEN provider.selectors ELSE << >>)
            \o selectorsToTryRaw(k + 1, spfMechanisms, mxRecords)

selectorsToTry(spfMechanisms, mxRecords) ==
    Dedup(selectorsToTryRaw(1, spfMechanisms, mxRecords))

\* an answer of the resolver: it rejects, or resolves with its records
Rejected == [rejected |-> TRUE, records |-> << >>]

Resolved(recs) == [rejected |-> FALSE, records |-> recs]

\* the SPF block, once resolveTxt(domain) has settled with `answer`
AfterSpf(result, answer) ==
    IF answer.rejected THEN result
    ELSE LET spfRecord == FindStartingWith(JoinAll(answer.records), "v=spf1")
         IN IF spfRecord.present
            THEN [result EXCEPT !.spf = spfRecord,
                                !.spfParsed = Some(parseSpfRecord(spfRecord.value))]
            ELSE result

spfMechanismsOf(result) ==
    IF result.spfParsed.present /\ result.spfParsed.value.valid
    THEN result.spfParsed.value.mechanisms ELSE << >>

\* the MX block, once resolveMx(domain) has settled with `answer`
AfterMx(answer) ==
    IF answer.rejected THEN << >>
    ELSE [i \in 1..Len(answer.records) |-> toLowerCase(answer.records[i])]

\* one turn of the DKIM loop, once resolveTxt(selector._domainkey.domain) has
\* settled; found tells whether the loop breaks
DkimFound(answer) ==
    ~answer.rejected /\ JoinWithSpace(JoinAll(answer.records)) # << >>

\* a variant that keeps the joined text of every answer, empty or not
AfterDkimUnchecked(result, answer) ==
    IF answer.rejected THEN result
    ELSE LET dkimRecord == JoinWithSpace(JoinAll(answer.records))
         IN [result EXCEPT !.dkim = Some(dkimRecord),
                            !.dkimParsed = Some(parseDkimRecord(dkimRecord))]

AfterDkim(result, answer) ==
    IF DkimFound(answer)
    THEN LET dkimRecord == JoinWithSpace(JoinAll(answer.records))
         IN [result EXCEPT !.dkim = Some(dkimRecord),
                            !.dkimParsed = Some(parseDkimRecord(dkimRecord))]
    ELSE result

\* the DMARC block, once resolveTxt(_dmarc.domain) has settled
AfterDmarc(result, answer) ==
    IF answer.rejected THEN result
    ELSE LET dmarcRecord == FindStartingWith(JoinAll(answer.records), "v=dmarc1")
         IN IF dmarcRecord.present
            THEN [result EXCEPT !.dmarc = dmarcRecord,
                                !.dmarcParsed = Some(parseDmarcRecord(dmarcRecord.value))]
            ELSE result

\* const result: DomainAuthRecords = { domain }
NewAuthRecords(domain) ==
    [domain |-> domain, spf |-> None, spfParsed |-> None,
     dkim |-> None, dkimParsed |-> None,
     dmarc |-> None, dmarcParsed |-> None]

(***************************************************************************)
(* The rate fields of the report: ReportGenerator.generateHtmlFromTemplate *)
(* and the console summary of generateDefaultReport.  A field is a         *)
(* percentage (the digits toFixed(2) returns, followed by "%"), or one of  *)
(* the two fixed texts of the code, named by what they display.            *)
(***************************************************************************)
Percentage(text) == [kind |-> "percent", text |-> text]

\* displays "N/A", titled "No reports or messages found for period"
NotApplicable == [kind |-> "N/A", title |-> "No reports or messages found for period"]

\* displays "0%", titled "No messages <what> during period"
ZeroPercent(what) == [kind |-> "0%", title |-> what]

\* a.divide(b).multiply(100).toFixed(2) + "%" on two instances
RateOfInstances(a, b) ==
    Percentage(toFixed(MultiplySafeInteger(divide(a, b, FALSE), 100), 2))

\* the condition of the first branch of each of the three rate fields
PassRateGuard(passedMessages, failedMessages, totalMessages) ==
    gt(passedMessages, 0) /\ gt(totalMessages, 0)

QuarantineRateGuard(quarantinedMessages, failedMessages, totalMessages) ==
    gt(quarantinedMessages, 0) /\ gt(failedMessages, 0)

FailRateGuard(passedMessages, failedMessages, totalMessages) ==
    gt(passedMessages, 0) /\ gt(failedMessages, 0)

\* the three rate fields, computed alike by the HTML summary and the console
RateFields(analysis) ==
    LET passedMessages == FromInteger(analysis.passedMessages)
        quarantinedMessages == FromInteger(analysis.quarantinedMessages)
        failedMessages == FromInteger(analysis.failedMessages)
        totalMessages == FromInteger(analysis.totalMessages)
    IN [passRate |->
          IF PassRateGuard(passedMessages, failedMessages, totalMessages)
          THEN RateOfInstances(passedMessages, totalMessages)
          ELSE IF gt(totalMessages, 0) THEN NotApplicable
          ELSE ZeroPercent("passed"),
        quarantineRate |->
          IF QuarantineRateGuard(quarantinedMessages, failedMessages, totalMessages)
          THEN RateOfInstances(quarantinedMessages, totalMessages)
          ELSE IF gt(totalMessages, 0) THEN NotApplicable
          ELSE ZeroPercent("quarantined"),
        failRate |->
          IF FailRateGuard(passedMessages, failedMessages, totalMessages)
          THEN RateOfInstances(failedMessages, totalMessages)
          ELSE IF gt(totalMessages, 0) THEN NotApplicable
          ELSE ZeroPercent("failed")]

\* the divisors that the rate fields hand to divide
RateDivisors(analysis) ==
    LET passedMessages == FromInteger(analysis.passedMessages)
        quarantinedMessages == FromInteger(analysis.quarantinedMessages)
        failedMessages == FromInteger(analysis.failedMessages)
        totalMessages == FromInteger(analysis.totalMessages)
    IN IF PassRateGuard(passedMessages, failedMessages, totalMessages)
          \/ QuarantineRateGuard(quarantinedMessages, failedMessages, totalMessages)
          \/ FailRateGuard(passedMessages, failedMessages, totalMessages)
       THEN {totalMessages} ELSE {}

\* a cell of the Domain Alignment table:
\* totalMessages > 0 ? new BigDecimal(x.toString()).divide(total.toString())
\*                         .multiply("100").toFixed(2) : "0.00"
AlignmentCell(x, totalMessages) ==
    IF totalMessages > 0
    THEN Percentage(toFixed(MultiplyIntegerString(
             divide(FromInteger(x), FromInteger(totalMessages), totalMessages = 1),
             100), 2))
    ELSE Percentage([neg |-> FALSE, int |-> 0, frac |-> <<0, 0>>])

AlignmentCells(analysis) ==
    [k \in DOMAIN analysis.domainAlignment |->
        AlignmentCell(analysis.domainAlignment[k], analysis.totalMessages)]

AlignmentDivisors(analysis) ==
    IF analysis.totalMessages > 0 THEN {FromInteger(analysis.totalMessages)} ELSE {}

\* DateUtil.daysBetween(earliest, latest) throws when dateLikeToDateUtc is
\* handed a number beyond 8.64e15, which of the values analyze produces is
\* Number.MAX_SAFE_INTEGER only
DaysBetweenThrows(dateRange) == dateRange.earliest = MAX_SAFE_INTEGER

\* Math.floor((end - start) / 86400000) on the two dates
daysBetween(earliest, latest) == (latest - earliest) \div SecondsPerDay

\* the divisors that generateTrendData hands to divide
TrendDivisors(dailyData) ==
    {FromInteger(dailyData[k].total) : k \in {d \in DOMAIN dailyData : TrendRateGuard(dailyData[d])}}

(***************************************************************************)
(* The state of one run of generateDefaultReport.                          *)
(***************************************************************************)
VARIABLES
    env,               \* process.env: the three DMARC_* switches getConfig reads
    files,             \* the files of the reports directory, in readdir order
    sortByTimestamp,   \* config.sortByTimestamp
    includeChart,      \* config.includeChart
    zipFileInfos,      \* the ZipFileInfo list in the order processDirectory walks it
    records,           \* what processDirectory returned: the report records
    enableDnsLookups,  \* config.enableDnsLookups
    dns,               \* what the resolver answers, per domain and query
    pc,                \* where the run stands
    result,            \* the AnalysisResult of analyze
    failingSources,    \* analyze's map of failing sources, in insertion order
    lk,                \* the frame of the lookupDomainAuthRecords call in flight
    lookupLog,         \* history: the calls and returns of lookupDomainAuthRecords
    divisors,          \* history: every divisor handed to BigDecimal.divide
    html,              \* the rate fields and alignment cells of the HTML report
    summary,           \* the rate fields of the console summary
    error,             \* the exception that ended the run, if any
    calc,              \* the last BigDecimal expression evaluated and its outcome
    objects,           \* the BigDecimal instances followed by identity: n and _str
    platform,          \* process.platform
    registeredCallbacks,      \* the WeakRefs of the exit callbacks, in insertion order
    collected,         \* the callbacks the garbage collector has reclaimed
    attachedProcessListeners, \* the [event, handler] pairs attachExitHandlers keeps
    listeners,         \* the listeners of the process, per event
    didExit,           \* the didExit flag of each attachExitHandlers call
    fired              \* history: the events emitted, and the callbacks each one ran

\* what the loader and getConfig hold
loadVars == <<env, files, sortByTimestamp, includeChart, zipFileInfos>>

\* what the analysis and the rendering hold
runVars == <<records, enableDnsLookups, dns, pc, result, failingSources, lk,
             lookupLog, divisors, html, summary, error>>

\* what ExitHandlers.ts holds, and the process around it
exitVars == <<platform, registeredCallbacks, collected, attachedProcessListeners,
              listeners, didExit, fired>>

vars == <<loadVars, runVars, calc, objects, exitVars>>

\* no BigDecimal expression evaluated yet
NoCalc == [op |-> "none"]

\* the environment of a run whose configuration came out with this DNS switch
EnvOf(dnsFlag) ==
    [DMARC_SORT_BY_TIMESTAMP |-> Undefined,
     DMARC_INCLUDE_TREND_CHART |-> Undefined,
     DMARC_ENABLE_DNS_LOOKUPS |-> IF dnsFlag THEN Undefined ELSE "false"]

IdleLookup ==
    [stage |-> "idle", result |-> NewAuthRecords(""), mxRecords |-> << >>,
     selectors |-> << >>, idx |-> 0]

NotRendered == [rendered |-> FALSE]

\* the state in which generateDefaultReport calls analyze on the loaded records
InitWith(RecordSeqs, Flags, Resolvers) ==
    /\ records \in RecordSeqs
    /\ enableDnsLookups \in Flags
    /\ env = EnvOf(enableDnsLookups)
    /\ files = << >>
    /\ zipFileInfos = << >>
    /\ sortByTimestamp = TRUE
    /\ includeChart = TRUE
    /\ calc = NoCalc
    /\ dns \in Resolvers
    /\ pc = "start"
    /\ result = InitialResult(<< >>, << >>)
    /\ failingSources = << >>
    /\ lk = IdleLookup
    /\ lookupLog = << >>
    /\ divisors = {}
    /\ html = NotRendered
    /\ summary = NotRendered
    /\ error = "none"

(***************************************************************************)
(* DmarcAnalyzer.analyze, up to its first await: generateTrendData and the *)
(* counting pass over all records.                                         *)
(***************************************************************************)
Analyze ==
    /\ pc = "start"
    /\ LET dailyData == DailyData(records)
           trends == generateTrendData(records)
           acc == CountRecords(InitialAcc(records, trends), records)
       IN /\ divisors' = divisors \cup TrendDivisors(dailyData)
          /\ IF \E i \in 1..Len(trends) : trends[i].passRate = [throws |-> "RangeError"]
             THEN /\ pc' = "failed"
                  /\ error' = "RangeError"
                  /\ UNCHANGED <<result, failingSources>>
             ELSE /\ result' = acc.result
                  /\ failingSources' = acc.failingSources
                  /\ pc' = IF enableDnsLookups /\ acc.result.uniqueAnalyzedDomains # << >>
                           THEN "lookups" ELSE "rank"
                  /\ UNCHANGED error
    /\ UNCHANGED <<loadVars, calc, objects, exitVars>>
    /\ UNCHANGED <<records, enableDnsLookups, dns, lk, lookupLog, html, summary>>

(***************************************************************************)
(* The lookup loop of analyze and lookupDomainAuthRecords, one action per  *)
(* stretch between two awaits of the resolver.                             *)
(***************************************************************************)
\* analyze calls lookupDomainAuthRecords(domain), which awaits resolveTxt(domain)
LookupCall ==
    /\ pc = "lookups"
    /\ lk.stage = "idle"
    /\ LET domain == result.uniqueAnalyzedDomains[Len(result.domainAuthRecords) + 1]
       IN /\ lk' = [IdleLookup EXCEPT !.stage = "spf", !.result = NewAuthRecords(domain)]
          /\ lookupLog' = Append(lookupLog, [ev |-> "call", domain |-> domain])
    /\ UNCHANGED <<loadVars, calc, objects, exitVars>>
    /\ UNCHANGED <<records, enableDnsLookups, dns, pc, result, failingSources,
                   divisors, html, summary, error>>

\* resolveTxt(domain) settles: the SPF block; then resolveMx(domain) is awaited
SpfSettled ==
    /\ lk.stage = "spf"
    /\ lk' = [lk EXCEPT !.result = AfterSpf(@, dns[lk.result.domain].txt),
                        !.stage = "mx"]
    /\ UNCHANGED <<loadVars, calc, objects, exitVars>>
    /\ UNCHANGED <<records, enableDnsLookups, dns, pc, result, failingSources,
                   lookupLog, divisors, html, summary, error>>

\* resolveMx(domain) settles: the MX block and the selectors to try; then the
\* DKIM record of the first selector is awaited
MxSettled ==
    /\ lk.stage = "mx"
    /\ LET mxRecords == AfterMx(dns[lk.result.domain].mx)
       IN lk' = [lk EXCEPT !.mxRecords = mxRecords,
                           !.selectors = selectorsToTry(spfMechanismsOf(lk.result), mxRecords),
                           !.idx = 1,
                           !.stage = "dkim"]
    /\ UNCHANGED <<loadVars, calc, objects, exitVars>>
    /\ UNCHANGED <<records, enableDnsLookups, dns, pc, result, failingSources,
                   lookupLog, divisors, html, summary, error>>

\* the DKIM query of the current selector settles: break on a record, else
\* try the next selector; after the loop the DMARC record is awaited
DkimSettled ==
    /\ lk.stage = "dkim"
    /\ LET answer == dns[lk.result.domain].dkim[lk.selectors[lk.idx]]
       IN lk' = [lk EXCEPT !.result = AfterDkim(@, answer),
                           !.idx = IF DkimFound(answer) \/ lk.idx = Len(lk.selectors)
                                   THEN @ ELSE @ + 1,
                           !.stage = IF DkimFound(answer) \/ lk.idx = Len(lk.selectors)
                                     THEN "dmarc" ELSE "dkim"]
    /\ UNCHANGED <<loadVars, calc, objects, exitVars>>
    /\ UNCHANGED <<records, enableDnsLookups, dns, pc, result, failingSources,
                   lookupLog, divisors, html, summary, error>>

\* resolveTxt(_dmarc.domain) settles: the DMARC block; the lookup returns and
\* analyze pushes its result
DmarcSettled ==
    /\ lk.stage = "dmarc"
    /\ LET domainLookup == AfterDmarc(lk.result, dns[lk.result.domain].dmarc)
           pushed == Append(result.domainAuthRecords, domainLookup)
       IN /\ result' = [result EXCEPT !.domainAuthRecords = pushed]
          /\ lookupLog' = Append(lookupLog, [ev |-> "return", domain |-> lk.result.domain])
          /\ pc' = IF Len(pushed) < Len(result.uniqueAnalyzedDomains)
                   THEN "lookups" ELSE "rank"
    /\ lk' = IdleLookup
    /\ UNCHANGED <<loadVars, calc, objects, exitVars>>
    /\ UNCHANGED <<records, enableDnsLookups, dns, failingSources, divisors,
                   html, summary, error>>

(***************************************************************************)
(* analyze, after the lookups: the top failing sources; analyze returns.   *)
(***************************************************************************)
RankSources ==
    /\ pc = "rank"
    /\ result' = [result EXCEPT !.topFailingSources = topFailingSources(failingSources)]
    /\ pc' = "analyzed"
    /\ UNCHANGED <<loadVars, calc, objects, exitVars>>
    /\ UNCHANGED <<records, enableDnsLookups, dns, failingSources, lk, lookupLog,
                   divisors, html, summary, error>>

(***************************************************************************)
(* ReportGenerator.generateHtmlReport                                      *)
(***************************************************************************)
\* failureDetails.sort((a, b) => a.dateRange.begin - b.dateRange.begin), in place
InsertDetail(front, x) ==
    LET keep == {i \in 1..Len(front) : front[i].dateRange.begin <= x.dateRange.begin}
        at == IF keep = {} THEN 0 ELSE CHOOSE i \in keep : \A j \in keep : j <= i
    IN SubSeq(front, 1, at) \o <<x>> \o SubSeq(front, at + 1, Len(front))

RECURSIVE InsertDetails(_, _, _)
InsertDetails(front, s, k) ==
    IF k > Len(s) THEN front
    ELSE LET next == InsertDetail(front, s[k])
         IN InOrder(next, InsertDetails(next, s, k + 1))

SortDetails(s) == InsertDetails(<< >>, s, 1)

GenerateHtml ==
    /\ pc = "analyzed"
    /\ IF DaysBetweenThrows(result.dateRange)
       THEN /\ pc' = "failed"
            /\ error' = "DateUtilError"
            /\ UNCHANGED <<result, divisors, html>>
       ELSE LET used == RateDivisors(result) \cup AlignmentDivisors(result)
            IN /\ divisors' = divisors \cup used
               /\ IF \E d \in used : divideThrows(d, FALSE)
                  THEN /\ pc' = "failed"
                       /\ error' = "RangeError"
                       /\ UNCHANGED <<result, html>>
                  ELSE /\ html' = [rendered |-> TRUE,
                                   dayCount |-> daysBetween(result.dateRange.earliest,
                                                            result.dateRange.latest),
                                   rates |-> RateFields(result),
                                   alignment |-> AlignmentCells(result),
                                   chart |-> includeChart]
                       /\ result' = [result EXCEPT !.failureDetails = SortDetails(@)]
                       /\ pc' = "rendered"
                       /\ UNCHANGED error
    /\ UNCHANGED <<loadVars, calc, objects, exitVars>>
    /\ UNCHANGED <<records, enableDnsLookups, dns, failingSources, lk, lookupLog, summary>>

(***************************************************************************)
(* generateDefaultReport, after the report is written: the console summary *)
(***************************************************************************)
WriteSummary ==
    /\ pc = "rendered"
    /\ LET used == RateDivisors(result)
       IN /\ divisors' = divisors \cup used
          /\ IF \E d \in used : divideThrows(d, FALSE)
             THEN /\ pc' = "failed"
                  /\ error' = "RangeError"
                  /\ UNCHANGED summary
             ELSE /\ summary' = [rendered |-> TRUE, rates |-> RateFields(result)]
                  /\ pc' = "done"
                  /\ UNCHANGED error
    /\ UNCHANGED <<loadVars, calc, objects, exitVars>>
    /\ UNCHANGED <<records, enableDnsLookups, dns, result, failingSources, lk,
                   lookupLog, html>>

Next ==
    \/ Analyze
    \/ LookupCall
    \/ SpfSettled
    \/ MxSettled
    \/ DkimSettled
    \/ DmarcSettled
    \/ RankSources
    \/ GenerateHtml
    \/ WriteSummary

(***************************************************************************)
(* The inputs of the model: what the resolver may answer, and the report   *)
(* records the loader may hand to analyze.                                 *)
(***************************************************************************)
Domains == {"example.com", "example.org"}

AllSelectors == {"google", "selector1", "selector2", "default", "s1", "s2", "k1"}

\* answers to resolveTxt(domain): each TXT record is a sequence of chunks
TxtAnswers ==
    { Rejected,
      Resolved(<< << <<"google-site-verification=abc">> >> >>),
      Resolved(<< << <<"google-site-verification=abc">> >>,
                  << <<"v=spf1", "include:_spf.google.com">>, <<"~all">> >> >>),
      Resolved(<< << <<"V=SPF1", "include:spf.protection.outlook.com", "-all">> >> >>),
      Resolved(<< << <<"v=spf1", "mx", "redirect=_spf.example.net", "-all">> >> >>) }

\* answers to resolveMx(domain): the exchanges
MxAnswers ==
    { Rejected, Resolved(<<"ASPMX.L.GOOGLE.COM">>), Resolved(<<"mx.example.net">>) }

DkimTxt == Resolved(<< << <<"v=DKIM1;", "k=rsa;">>, <<"p=MIGfMA0G">> >> >>)

\* answers to resolveTxt(selector._domainkey.domain), for every selector
DkimAnswers ==
    { [s \in AllSelectors |-> Rejected],
      [s \in AllSelectors |-> Resolved(<< >>)],
      [s \in AllSelectors |-> IF s = "default" THEN DkimTxt ELSE Rejected],
      [s \in AllSelectors |-> IF s = "selector2" THEN DkimTxt ELSE Resolved(<< << >> >>)] }

\* answers to resolveTxt(_dmarc.domain)
DmarcAnswers ==
    { Rejected,
      Resolved(<< << <<"v=spf1", "-all">> >> >>),
      Resolved(<< << <<"v=DMARC1;", "p=none;">> >> >>) }

Zones == [txt : TxtAnswers, mx : MxAnswers, dkim : DkimAnswers, dmarc : DmarcAnswers]

GoogleZone ==
    [txt |-> Resolved(<< << <<"google-site-verification=abc">> >>,
                         << <<"v=spf1", "include:_spf.google.com">>, <<"~all">> >> >>),
     mx |-> Resolved(<<"ASPMX.L.GOOGLE.COM">>),
     dkim |-> [s \in AllSelectors |-> IF s = "default" THEN DkimTxt ELSE Rejected],
     dmarc |-> Resolved(<< << <<"v=DMARC1;", "p=none;">> >> >>)]

EmptyZone ==
    [txt |-> Rejected, mx |-> Rejected,
     dkim |-> [s \in AllSelectors |-> Rejected], dmarc |-> Rejected]

\* one resolver, for the runs that do not vary the DNS
FixedResolvers ==
    { [d \in Domains |-> IF d = "example.com" THEN GoogleZone ELSE EmptyZone] }

\* the resolvers of the lookup runs: every zone for example.com
VariedResolvers ==
    { [d \in Domains |-> IF d = "example.com" THEN z ELSE y] :
        z \in Zones, y \in {GoogleZone, EmptyZone} }

\* 2023-11-14T00:00:00Z and 2023-11-14T22:13:20Z
Midnight == 19675 * 86400

Evening == Midnight + 80000

SourceIps ==
    << <<209, 85, 220, 41>>, <<40, 92, 1, 1>>, <<54, 240, 8, 1>>, <<198, 2, 128, 1>>,
       <<167, 89, 1, 1>>, <<192, 168, 1, 10>>, <<10, 0, 0, 5>>, <<172, 16, 0, 1>>,
       <<172, 217, 1, 1>>, <<8, 8, 8, 8>>, <<1, 2, 3, 4>>, <<5, 6, 7, 8>>,
       <<203, 0, 113, 7>>, <<172, 32, 0, 1>> >>

\* (reason, comment) of a row
ReasonComments ==
    { <<Undefined, Undefined>>, <<"local_policy", "arc=pass">>,
      <<"local_policy", Undefined>>, <<"forwarded", "forwarded arc=pass">>,
      <<"local_policy", "arc=fail">> }

\* classification runs: one-day records of one row, every combination of the
\* DKIM and SPF outcomes with the reason and comment; and rows that vary the
\* disposition and the count, zero included
VerdictRecords ==
    { DmarcRecord("example.com", "google.com", "g-1", Midnight, Midnight + 86399,
                  << DmarcRecordRow(<<8, 8, 8, 8>>, 2, "none", dk, sp, "example.com",
                                    rc[1], rc[2]) >>) :
        dk \in {"pass", "fail"}, sp \in {"pass", "fail"}, rc \in ReasonComments }

DispositionRecords ==
    { DmarcRecord("example.org", "Yahoo", "y-1", Midnight, Midnight + 86399,
                  << DmarcRecordRow(<<1, 2, 3, 4>>, c, dp, dk, "fail", "mail.example.org",
                                    Undefined, Undefined) >>) :
        c \in {0, 3}, dp \in {"quarantine", "reject"}, dk \in {"pass", "fail"} }

MixedRecords ==
    { DmarcRecord("example.com", "Yahoo", "y-2", Midnight, Midnight + 86399, << >>),
      DmarcRecord("example.com", "google.com", "g-2", Midnight, Midnight + 86399,
                  << DmarcRecordRow(<<8, 8, 8, 8>>, 1, "none", "pass", "pass",
                                    "example.com", Undefined, Undefined),
                     DmarcRecordRow(<<1, 2, 3, 4>>, 4, "quarantine", "fail", "fail",
                                    "example.com", "local_policy", "arc=pass") >>) }

ClassifyRecords == VerdictRecords \cup DispositionRecords \cup MixedRecords

\* trend runs: records that start at midnight or in the evening and span less
\* than a day, or one or two whole days more
TrendSpans == {0, 86399, 86400, 172800}

TrendRecords ==
    { DmarcRecord("example.com", "google.com", "g-3", b, b + span,
                  << DmarcRecordRow(<<8, 8, 8, 8>>, row[1], "none", row[2], "fail",
                                    "example.com", Undefined, Undefined) >>) :
        b \in {Midnight, Evening}, span \in TrendSpans,
        row \in { <<100, "pass">>, <<101, "fail">>, <<3, "fail">> } }
    \cup
    { DmarcRecord("example.org", "Yahoo", "y-3", Midnight, Midnight + 86400,
                  << DmarcRecordRow(<<8, 8, 8, 8>>, 101, "none", "pass", "fail",
                                    "example.org", Undefined, Undefined),
                     DmarcRecordRow(<<1, 2, 3, 4>>, 1, "reject", "fail", "fail",
                                    "example.org", Undefined, Undefined) >>) }

\* ranking runs: records whose rows fail from a run of consecutive addresses
BlockRecord(first, len, c, m, dk) ==
    DmarcRecord(IF first = 1 THEN "example.com" ELSE "example.org",
                IF c = 1 THEN "google.com" ELSE "Yahoo",
                IF c = 1 THEN "g-4" ELSE "y-4",
                IF m = 0 THEN Midnight ELSE Evening,
                IF m = 0 THEN Midnight + 86400 ELSE Evening + 86399,
                [i \in 1..len |->
                    DmarcRecordRow(SourceIps[first + i - 1], c + m * ((first + i - 1) % 3),
                                   IF c = 1 THEN "none" ELSE "reject", dk, "fail",
                                   "example.com", Undefined, Undefined)])

RankRecords ==
    { BlockRecord(1, 11, c, m, "fail") : c \in {1, 2}, m \in {0, 1} }
    \cup { BlockRecord(4, 11, c, 0, "fail") : c \in {1, 2} }
    \cup { BlockRecord(first, 1, c, 0, "fail") : first \in {1, 4}, c \in {1, 2} }
    \cup { BlockRecord(1, 8, 2, 1, "pass") }

\* lookup runs: one record per domain
LookupRecords ==
    { DmarcRecord(d, "google.com", "g-5", Midnight, Midnight + 86399,
                  << DmarcRecordRow(<<8, 8, 8, 8>>, 1, "none", "pass", "fail", d,
                                    Undefined, Undefined) >>) : d \in Domains }

(***************************************************************************)
(* Properties of the trend series.  What a day bucket should hold is       *)
(* stated from the records, apart from generateTrendData.                  *)
(***************************************************************************)
analyzed == pc \notin {"start", "failed"}

spanOf(record) == record.dateRange.end - record.dateRange.begin

\* the sum of the counts of the rows of a record that are passed (or of all)
RECURSIVE rowCounts(_, _)
rowCounts(rows, onlyPassed) ==
    IF rows = << >> THEN 0
    ELSE (IF onlyPassed /\ ~passed(Head(rows)) THEN 0 ELSE Head(rows).count)
         + rowCounts(Tail(rows), onlyPassed)

\* the same with every count divided by n and rounded down
RECURSIVE rowShares(_, _, _)
rowShares(rows, onlyPassed, n) ==
    IF rows = << >> THEN 0
    ELSE (IF onlyPassed /\ ~passed(Head(rows)) THEN 0 ELSE Head(rows).count \div n)
         + rowShares(Tail(rows), onlyPassed, n)

\* the UTC day number of a timestamp of the model's runs
dayOf(timestamp) == timestamp \div 86400

\* the full counts of the records that begin on a day
RECURSIVE fullCountsOn(_, _, _)
fullCountsOn(recs, day, onlyPassed) ==
    IF recs = << >> THEN 0
    ELSE (IF dayOf(Head(recs).dateRange.begin) = day
          THEN rowCounts(Head(recs).records, onlyPassed) ELSE 0)
         + fullCountsOn(Tail(recs), day, onlyPassed)

\* the whole days k of a record with end = begin + k * 86400
wholeDays(record) == spanOf(record) \div 86400

\* the shares floor(count / (k + 1)) of the whole-day records that cover a day
RECURSIVE sharesOn(_, _, _)
sharesOn(recs, day, onlyPassed) ==
    IF recs = << >> THEN 0
    ELSE (IF day - dayOf(Head(recs).dateRange.begin) \in 0..wholeDays(Head(recs))
          THEN rowShares(Head(recs).records, onlyPassed, wholeDays(Head(recs)) + 1)
          ELSE 0)
         + sharesOn(Tail(recs), day, onlyPassed)

trendDays == {result.trends[j].date : j \in 1..Len(result.trends)}

theExampleC1 ==
    <<DmarcRecord("example.com", "google.com", "g-3", 1700000000, 1700000000 + 86399,
                  << DmarcRecordRow(<<8, 8, 8, 8>>, 100, "none", "pass", "fail",
                                    "example.com", Undefined, Undefined) >>)>>

\* C1: analyze on the single record begin=1700000000, end=begin+86399 with one
\* row count=100, dkim=pass, spf=fail yields passedMessages=100,
\* dkimAligned=100 and exactly one trend point with passed=100, total=100 and
\* a pass rate of 100; and whenever every record has 0 <= end-begin < 86400,
\* the bucket of a day holds the full count of every row of the records that
\* begin on that day.
C1_FullCountWithinOneDay ==
    analyzed =>
      /\ records = theExampleC1 =>
           /\ result.passedMessages = 100
           /\ result.domainAlignment.dkimAligned = 100
           /\ Len(result.trends) = 1
           /\ result.trends[1].passed = 100
           /\ result.trends[1].total = 100
           /\ result.trends[1].passRate = Num(100)
      /\ (\A i \in 1..Len(records) : spanOf(records[i]) \in 0..86399) =>
           /\ trendDays = {dayOf(records[i].dateRange.begin) : i \in 1..Len(records)}
           /\ \A j \in 1..Len(result.trends) :
                /\ result.trends[j].total =
                      fullCountsOn(records, result.trends[j].date, FALSE)
                /\ result.trends[j].passed =
                      fullCountsOn(records, result.trends[j].date, TRUE)

\* what analyze yields on the example of C1: the counters of the claim, and
\* one trend point that holds half of the count
C1_ExampleHalved ==
    /\ analyzed
    /\ records = theExampleC1
    /\ result.passedMessages = 100
    /\ result.domainAlignment.dkimAligned = 100
    /\ Len(result.trends) = 1
    /\ result.trends[1].passed = 50
    /\ result.trends[1].total = 50
    /\ result.trends[1].passRate = Num(100)

\* C5: for records whose range is a whole number of days (end = begin +
\* k*86400), the trend series has exactly the days begin, begin+86400, ...,
\* end of every record, and the bucket of a day holds floor(count / (k+1))
\* of every row of every record that covers the day.
C5_WholeDaysAmortized ==
    (analyzed /\ \A i \in 1..Len(records) : spanOf(records[i]) % 86400 = 0) =>
      /\ trendDays =
           UNION { { dayOf(records[i].dateRange.begin) + d : d \in 0..wholeDays(records[i]) } :
                   i \in 1..Len(records) }
      /\ Len(result.trends) = Cardinality(trendDays)
      /\ \A j \in 1..Len(result.trends) :
           /\ result.trends[j].total = sharesOn(records, result.trends[j].date, FALSE)
           /\ result.trends[j].passed = sharesOn(records, result.trends[j].date, TRUE)
           /\ result.trends[j].failed =
                 result.trends[j].total - result.trends[j].passed

\* a record of two days with one row of count 101 put 50 into each bucket
C5_TwoDaysOf101 ==
    /\ analyzed
    /\ Len(records) = 1
    /\ spanOf(records[1]) = 86400
    /\ records[1].records[1].count = 101
    /\ Len(records[1].records) = 1
    /\ Len(result.trends) = 2
    /\ result.trends[1].total = 50
    /\ result.trends[2].total = 50
    /\ result.trends[2].date = result.trends[1].date + 1

(***************************************************************************)
(* Properties of the counting pass and of the rate fields.                 *)
(***************************************************************************)
\* the places <<i, j>> of the rows: row j of record i
rowPlaces(recs) ==
    UNION { { <<i, j>> : j \in 1..Len(recs[i].records) } : i \in 1..Len(recs) }

RECURSIVE sumOfCounts(_, _)
sumOfCounts(recs, places) ==
    IF places = {} THEN 0
    ELSE LET p == CHOOSE q \in places : TRUE
         IN recs[p[1]].records[p[2]].count + sumOfCounts(recs, places \ {p})

\* the sum of the counts of the rows, over all records, that satisfy Which
countsWhere(recs, Which(_)) ==
    sumOfCounts(recs, {p \in rowPlaces(recs) : Which(recs[p[1]].records[p[2]])})

spfAlone(row) == row.spf = "pass" /\ row.dkim # "pass"

dkimAlone(row) == row.dkim = "pass" /\ row.spf # "pass"

dkimAndSpf(row) == row.dkim = "pass" /\ row.spf = "pass"

\* the ARC condition of the specification: the reason is local_policy and
\* the comment is there and contains arc=pass
arcCondition(row) ==
    row.reason = "local_policy" /\ row.comment \in {"arc=pass", "forwarded arc=pass"}

shouldPass(row) == row.dkim = "pass" \/ row.spf = "pass" \/ arcCondition(row)

shouldFail(row) == ~shouldPass(row)

anyRow(row) == TRUE

arcOnlyRow ==
    DmarcRecordRow(<<8, 8, 8, 8>>, 2, "none", "fail", "fail", "example.com",
                   "local_policy", "arc=pass")

oneRowRecord(row) ==
    DmarcRecord("example.com", "google.com", "g-1", Midnight, Midnight + 86399, <<row>>)

\* C2: after analyze, domainAlignment.spfAligned is the sum of the counts of
\* the rows where SPF passes and DKIM does not, and the both / DKIM-only /
\* SPF-only buckets hold each row that passes DKIM or SPF exactly once.
C2_SpfAlignedIsSpfAlone ==
    analyzed =>
      /\ result.domainAlignment.spfAligned = countsWhere(records, spfAlone)
      /\ result.domainAlignment.dkimAligned = countsWhere(records, dkimAlone)
      /\ result.domainAlignment.bothAligned = countsWhere(records, dkimAndSpf)

\* a row that passes by ARC alone, with SPF failed, is counted as SPF aligned
C2_ArcOnlyCountedAsSpf ==
    /\ analyzed
    /\ records = <<oneRowRecord(arcOnlyRow)>>
    /\ result.domainAlignment.spfAligned = 2
    /\ result.domainAlignment.arcAligned = 2

\* C6: a row is passed exactly if DKIM passes, SPF passes, or its reason is
\* local_policy and its comment contains arc=pass; the counts of the passed
\* rows go to passedMessages and those of the others to failedMessages and
\* noneAligned; arcAligned is the sum of the counts of the rows with reason
\* local_policy and a comment containing arc=pass.  An absent comment and a
\* reason other than local_policy do not satisfy the ARC condition.
C6_ArcPassClassification ==
    analyzed =>
      /\ result.passedMessages = countsWhere(records, shouldPass)
      /\ result.failedMessages = countsWhere(records, shouldFail)
      /\ result.domainAlignment.noneAligned = countsWhere(records, shouldFail)
      /\ result.domainAlignment.arcAligned = countsWhere(records, arcCondition)
      /\ result.totalMessages = countsWhere(records, anyRow)

\* the row dkim=fail, spf=fail, local_policy, arc=pass was counted as passed
C6_ArcOnlyRowPassed ==
    /\ analyzed
    /\ records = <<oneRowRecord(arcOnlyRow)>>
    /\ result.passedMessages = 2
    /\ result.failedMessages = 0
    /\ result.domainAlignment.noneAligned = 0
    /\ result.domainAlignment.arcAligned = 2

\* the field the claim of C3 describes for a numerator and a total
rateAsClaimed(numerator, totalMessages) ==
    IF totalMessages = 0 THEN NotApplicable
    ELSE RateOfInstances(FromInteger(numerator), FromInteger(totalMessages))

ratesAsClaimed(analysis) ==
    [passRate |-> rateAsClaimed(analysis.passedMessages, analysis.totalMessages),
     quarantineRate |-> rateAsClaimed(analysis.quarantinedMessages, analysis.totalMessages),
     failRate |-> rateAsClaimed(analysis.failedMessages, analysis.totalMessages)]

\* C3: each rate of the HTML summary and of the console summary is the "not
\* applicable" text only if totalMessages = 0, and is otherwise the
\* percentage numerator / totalMessages * 100 with two decimals.
C3_NotApplicableOnlyAtZero ==
    /\ html.rendered => html.rates = ratesAsClaimed(result)
    /\ summary.rendered => summary.rates = ratesAsClaimed(result)

\* every message failed: the pass rate and the fail rate both display N/A
C3_AllFailedDisplaysNotApplicable ==
    /\ summary.rendered
    /\ result.totalMessages > 0
    /\ result.failedMessages = result.totalMessages
    /\ html.rates.passRate = NotApplicable
    /\ html.rates.failRate = NotApplicable
    /\ summary.rates.failRate = NotApplicable

\* no message at all: the rates display 0%, not N/A
C3_NoMessagesDisplaysZero ==
    /\ summary.rendered
    /\ result.totalMessages = 0
    /\ html.rates.passRate = ZeroPercent("passed")
    /\ summary.rates.quarantineRate = ZeroPercent("quarantined")

\* C8: no path of trend generation, HTML rendering or the console summary
\* hands BigDecimal.divide a zero divisor, and no run ends with its
\* RangeError.
C8_NoZeroDivisor ==
    /\ \A d \in divisors : d # 0
    /\ error # "RangeError"

\* a run with a trend bucket of total 0 and totalMessages = 0 reached the end
\* without a division
C8_ZeroCasesShortCircuited ==
    /\ pc = "done"
    /\ result.totalMessages = 0
    /\ Len(result.trends) > 0
    /\ \A j \in 1..Len(result.trends) : result.trends[j].total = 0
    /\ divisors = {}

\* a run with messages divided by its totals only
C8_DividedByTotals ==
    /\ pc = "done"
    /\ result.passedMessages > 0
    /\ result.failedMessages > 0
    /\ FromInteger(result.totalMessages) \in divisors

(***************************************************************************)
(* Properties of the ranking of the failing sources.                       *)
(***************************************************************************)
ranked == pc \in {"analyzed", "rendered", "done"}

\* the addresses of the failed rows
failingIps == { recs[2] : recs \in { <<p, records[p[1]].records[p[2]].sourceIp>> :
                    p \in {q \in rowPlaces(records) :
                             shouldFail(records[q[1]].records[q[2]])} } }

\* the sum of the counts of the failed rows of an address
failedCountOf(ip) ==
    sumOfCounts(records, {p \in rowPlaces(records) :
                            /\ shouldFail(records[p[1]].records[p[2]])
                            /\ records[p[1]].records[p[2]].sourceIp = ip})

\* C7: topFailingSources has at most 10 entries, one per distinct source
\* address; the count of an entry is the sum of the counts of the failed
\* rows from its address; the entries are in non-increasing order of count;
\* and no source left out has a larger failed count than a source listed.
C7_TopTenByFailedCount ==
    ranked =>
      LET top == result.topFailingSources
          listed == {top[i].ip : i \in 1..Len(top)}
      IN /\ Len(top) <= 10
         /\ Len(top) = IF Cardinality(failingIps) < 10 THEN Cardinality(failingIps) ELSE 10
         /\ listed \subseteq failingIps
         /\ Cardinality(listed) = Len(top)
         /\ \A i \in 1..Len(top) : top[i].count = failedCountOf(top[i].ip)
         /\ \A i \in 1..Len(top) - 1 : top[i].count >= top[i + 1].count
         /\ \A ip \in failingIps \ listed :
              \A i \in 1..Len(top) : failedCountOf(ip) <= top[i].count

\* more than ten sources failed with different counts: ten are listed, and a
\* source with a smaller count is left out
C7_ElevenSourcesCutToTen ==
    /\ ranked
    /\ Cardinality(failingIps) > 10
    /\ Len(result.topFailingSources) = 10
    /\ result.topFailingSources[1].count > result.topFailingSources[10].count
    /\ \E ip \in failingIps :
         /\ \A i \in 1..10 : result.topFailingSources[i].ip # ip
         /\ failedCountOf(ip) < result.topFailingSources[1].count

\* the permutations of 1..n
perms(n) == {p \in [1..n -> 1..n] : \A i, j \in 1..n : p[i] = p[j] => i = j}

permuted(recs, p) == [i \in 1..Len(recs) |-> recs[p[i]]]

\* what analyze returns for a sequence of records (lookups left aside)
analysisOf(recs) ==
    LET trends == generateTrendData(recs)
        acc == CountRecords(InitialAcc(recs, trends), recs)
    IN [acc.result EXCEPT !.topFailingSources = topFailingSources(acc.failingSources)]

\* the aggregate counters, the alignment breakdown, the volumes per
\* organization and the trend series of an analysis
aggregates(analysis) ==
    [totalReports |-> analysis.totalReports,
     totalMessages |-> analysis.totalMessages,
     passedMessages |-> analysis.passedMessages,
     failedMessages |-> analysis.failedMessages,
     quarantinedMessages |-> analysis.quarantinedMessages,
     rejectedMessages |-> analysis.rejectedMessages,
     domainAlignment |-> analysis.domainAlignment,
     volumeByProvider |-> analysis.volumeByProvider,
     reportingOrgs |-> analysis.reportingOrgs,
     dateRange |-> analysis.dateRange,
     trends |-> analysis.trends]

\* the failing sources whose failed count is c
sourcesWithCount(c) == {ip \in failingIps : failedCountOf(ip) = c}

\* an entry of the list without its disposition
undisposed(entry) ==
    [ip |-> entry.ip, count |-> entry.count, provider |-> entry.provider,
     isKnownProvider |-> entry.isKnownProvider, riskLevel |-> entry.riskLevel]

\* C4 as stated: for every permutation of the records, analyze produces the
\* same counters, alignment, volumes and trend series, and the same
\* topFailingSources list (same entries, same order, same fields).
C4_SameTopListForPermutations ==
    pc = "analyzed" =>
      \A p \in perms(Len(records)) :
        LET other == analysisOf(permuted(records, p))
        IN /\ aggregates(other) = aggregates(result)
           /\ other.topFailingSources = result.topFailingSources

\* C4 amended: for every permutation of the records, analyze produces the
\* same counters, alignment, volumes and trend series, and a
\* topFailingSources list of the same length with the same count at every
\* place; a place whose count no other failing source shares holds the same
\* source, provider and risk level.  The order of sources of equal count,
\* which of the sources tied at the tenth place are listed, and the
\* disposition of an entry follow the order of the input.
C4_SameTopCountsForPermutations ==
    pc = "analyzed" =>
      \A p \in perms(Len(records)) :
        LET other == analysisOf(permuted(records, p))
            top == result.topFailingSources
        IN /\ aggregates(other) = aggregates(result)
           /\ Len(other.topFailingSources) = Len(top)
           /\ \A i \in 1..Len(top) :
                /\ other.topFailingSources[i].count = top[i].count
                /\ Cardinality(sourcesWithCount(top[i].count)) = 1 =>
                     undisposed(other.topFailingSources[i]) = undisposed(top[i])

\* two records in the other order give the same aggregates and another list
C4_OtherOrderOtherList ==
    /\ pc = "analyzed"
    /\ Len(records) = 2
    /\ LET other == analysisOf(<<records[2], records[1]>>)
       IN /\ aggregates(other) = aggregates(result)
          /\ Len(result.topFailingSources) = 10
          /\ other.topFailingSources # result.topFailingSources
          /\ \E i \in 1..10 :
               /\ other.topFailingSources[i].ip = result.topFailingSources[i].ip
               /\ other.topFailingSources[i].disposition
                    # result.topFailingSources[i].disposition
          /\ {other.topFailingSources[i].ip : i \in 1..10}
               # {result.topFailingSources[i].ip : i \in 1..10}

(***************************************************************************)
(* Properties of the policy lookups.                                       *)
(***************************************************************************)
\* the distinct domains of the records in first-seen order
RECURSIVE firstSeenDomains(_)
firstSeenDomains(recs) ==
    IF recs = << >> THEN << >>
    ELSE LET front == firstSeenDomains(SubSeq(recs, 1, Len(recs) - 1))
             d == recs[Len(recs)].domain
         IN IF d \in {front[i] : i \in 1..Len(front)} THEN front ELSE Append(front, d)

\* the domains of the lookups called so far, in the order of the calls
calledDomains ==
    [k \in 1..((Len(lookupLog) + 1) \div 2) |-> lookupLog[2 * k - 1].domain]

lookupsOver == pc \in {"rank", "analyzed", "rendered", "done"}

\* C9: with lookups enabled, the lookup is called once per distinct record
\* domain in first-seen order, each call after the return of the one before
\* and after the counting pass over all records, and domainAuthRecords[i] is
\* what the lookup of uniqueAnalyzedDomains[i] returned; with lookups
\* disabled there is no call and domainAuthRecords is empty; the counters
\* are those of the records, whatever the setting.
C9_LookupsOncePerDomainInOrder ==
    /\ \A i \in 1..Len(lookupLog) :
         /\ lookupLog[i].ev = (IF i % 2 = 1 THEN "call" ELSE "return")
         /\ i % 2 = 0 => lookupLog[i].domain = lookupLog[i - 1].domain
    /\ Len(calledDomains) <= Len(firstSeenDomains(records))
    /\ calledDomains = SubSeq(firstSeenDomains(records), 1, Len(calledDomains))
    /\ lookupLog # << >> =>
         /\ enableDnsLookups
         /\ analyzed
         /\ result.totalReports = Len(records)
         /\ result.totalMessages = countsWhere(records, anyRow)
         /\ result.uniqueAnalyzedDomains = firstSeenDomains(records)
    /\ Len(result.domainAuthRecords) = Len(lookupLog) \div 2
    /\ \A i \in 1..Len(result.domainAuthRecords) :
         result.domainAuthRecords[i].domain = result.uniqueAnalyzedDomains[i]
    /\ (lookupsOver /\ enableDnsLookups) =>
         /\ calledDomains = firstSeenDomains(records)
         /\ Len(lookupLog) = 2 * Len(calledDomains)
    /\ ~enableDnsLookups => lookupLog = << >> /\ result.domainAuthRecords = << >>
    /\ analyzed =>
         /\ result.passedMessages = countsWhere(records, shouldPass)
         /\ result.failedMessages = countsWhere(records, shouldFail)
         /\ result.totalMessages = countsWhere(records, anyRow)
         /\ result.uniqueAnalyzedDomains = firstSeenDomains(records)

\* two records of two domains, in the order example.org, example.com: two
\* lookups, in that order
C9_TwoDomainsTwoLookups ==
    /\ lookupsOver
    /\ enableDnsLookups
    /\ Len(records) = 2
    /\ calledDomains = <<"example.org", "example.com">>
    /\ Len(lookupLog) = 4
    /\ Len(result.domainAuthRecords) = 2

\* two records of one domain: one lookup
C9_OneDomainTwiceOneLookup ==
    /\ lookupsOver
    /\ enableDnsLookups
    /\ Len(records) = 2
    /\ records[1].domain = records[2].domain
    /\ Len(lookupLog) = 2

\* a successful answer that holds a record whose text starts with the tag
hasRecord(answer, tags) ==
    /\ ~answer.rejected
    /\ \E i \in 1..Len(answer.records) :
         /\ answer.records[i] # << >>
         /\ answer.records[i][1] # << >>
         /\ answer.records[i][1][1] \in tags

\* a successful answer that holds text
hasText(answer) ==
    /\ ~answer.rejected
    /\ \/ Len(answer.records) > 1
       \/ \E i \in 1..Len(answer.records) :
            \E c \in 1..Len(answer.records[i]) : answer.records[i][c] # << >>

C10_NoMatchIsAbsent ==
    /\ Len(result.domainAuthRecords) > 0
    /\ LET found == result.domainAuthRecords[1]
           zone == dns[found.domain]
       IN /\ ~zone.txt.rejected
          /\ ~zone.dmarc.rejected
          /\ \A s \in AllSelectors : ~zone.dkim[s].rejected
          /\ ~found.spf.present
          /\ ~found.dkim.present
          /\ ~found.dmarc.present

(***************************************************************************)
(* BigDecimal, the methods taken one at a time.  A method's argument is a  *)
(* number, a string or an instance (ValidBigDecimalInput); an instance is  *)
(* held with its scaled integer n, and the NaN sentinel is the instance    *)
(* that has no n at all.                                                   *)
(***************************************************************************)
\* a number that is a safe integer
Number(k) == [type |-> "number", value |-> k]

\* the number NaN
NumberNaN == [type |-> "number", notANumber |-> TRUE]

\* a decimal string: its sign, the digits before the point, whether there is
\* a point, and the digits after it
Text(sign, ints, dot, decis) ==
    [type |-> "string", sign |-> sign, ints |-> ints, dot |-> dot, decis |-> decis]

\* a BigInt k >= 0 handed to a method as its argument
BigIntValue(k) == [type |-> "bigint", value |-> k]

\* new BigDecimal(value, #fromBigInt)
Instance(n) == [type |-> "instance", n |-> n]

\* BigDecimal.NaN: Object.create(BigDecimal.prototype), an instance without n
NAN == [type |-> "instance"]

HasN(x) == "n" \in DOMAIN x

\* the exception a method ends with
Throws(what) == [throws |-> what]

IsThrown(r) == "throws" \in DOMAIN r

\* Number.prototype.toString / BigInt.prototype.toString of a value k >= 0
RECURSIVE DigitsOf(_)
DigitsOf(k) == IF k < 10 THEN <<k>> ELSE Append(DigitsOf(k \div 10), k % 10)

\* String(k) of an integer k
IntegerText(k) == Text(IF k < 0 THEN "-" ELSE "", DigitsOf(Abs(k)), FALSE, << >>)

\* num === k || num === "k", the test in front of a literal short-circuit
IsLiteral(num, k) ==
    \/ num.type = "number" /\ "value" \in DOMAIN num /\ num.value = k
    \/ num.type = "string" /\ num = IntegerText(k)

\* typeof num === "number" && Number.isSafeInteger(num)
IsSafeInteger(num) == num.type = "number" /\ "value" \in DOMAIN num

\* BigInt(sign + digits)
BigIntOf(sign, digits) ==
    IF sign = "-" THEN -DigitsValue(digits) ELSE DigitsValue(digits)

\* String.prototype.padEnd(w, "0")
padEnd(s, w) == s \o [i \in 1..(w - Len(s)) |-> 0]

\* the whole part and the decimals parsed apart and added
ParseDecimalPartwise(text) ==
    BigIntOf(text.sign, text.ints) * SHIFT
    + DigitsValue(padEnd(Slice(text.decis, DEC), DEC))
    + (IF ROUNDED /\ Len(text.decis) > DEC /\ text.decis[DEC + 1] >= 5 THEN 1 ELSE 0)

\* BigInt(ints + decis.slice(0, DEC).padEnd(DEC, "0")) + BigInt(ROUNDED && decis[DEC] >= "5")
ParseDecimal(text) ==
    BigIntOf(text.sign, text.ints \o padEnd(Slice(text.decis, DEC), DEC))
    + (IF ROUNDED /\ Len(text.decis) > DEC /\ text.decis[DEC + 1] >= 5 THEN 1 ELSE 0)

\* the values initializeCommonCache interns, as far as their scaled integers
\* fit the model checker's integers
commonValues ==
    <<Number(0), Number(1), Number(-1), Number(2), Number(10), Number(100),
      Number(1000), Number(10000), Number(100000), Number(1000000),
      Text("", <<0>>, TRUE, <<1>>), Text("", <<0>>, TRUE, <<0, 1>>),
      Text("", <<0>>, TRUE, <<0, 0, 1>>), Text("", <<0>>, TRUE, <<0, 0, 0, 1>>),
      Text("", <<0>>, TRUE, <<0, 0, 0, 0, 1>>),
      Text("", <<0>>, TRUE, <<0, 0, 0, 0, 0, 1>>),
      Text("", <<0>>, TRUE, <<5>>), Text("", <<0>>, TRUE, <<2, 5>>),
      Text("", <<0>>, TRUE, <<7, 5>>)>>

\* the values that have an entry in COMMON_CACHE
COMMON_VALUES == {commonValues[i] : i \in 1..Len(commonValues)}

\* val.toString(), the key of a value in COMMON_CACHE
KeyOf(value) == IF "value" \in DOMAIN value THEN IntegerText(value.value) ELSE value

\* createWithoutCache(value).n
createWithoutCache(value) ==
    IF IsSafeInteger(value) THEN value.value * SHIFT
    ELSE IF ~value.dot THEN BigIntOf(value.sign, value.ints) * SHIFT
    ELSE ParseDecimal(value)

\* str in COMMON_CACHE
InCommonCache(str) == \E val \in COMMON_VALUES : KeyOf(val) = str

\* COMMON_CACHE[str]
COMMON_CACHE(str) ==
    Instance(createWithoutCache(CHOOSE val \in COMMON_VALUES : KeyOf(val) = str))

ZERO_CACHED == COMMON_CACHE(IntegerText(0))

ONE_CACHED == COMMON_CACHE(IntegerText(1))

\* new BigDecimal(value)
Construct(value) ==
    IF value.type = "instance" THEN value
    ELSE IF value = NumberNaN THEN NAN
    ELSE IF InCommonCache(KeyOf(value)) THEN COMMON_CACHE(KeyOf(value))
    ELSE IF IsSafeInteger(value) THEN Instance(value.value * SHIFT)
    ELSE IF value.type = "bigint" THEN Instance(BigIntOf("", DigitsOf(value.value)) * SHIFT)
    ELSE IF value.ints = << >> /\ ~value.dot THEN Throws("Error")
    ELSE IF ~value.dot THEN Instance(BigIntOf(value.sign, value.ints) * SHIFT)
    ELSE Instance(ParseDecimal(value))

\* this.n + operand.n and the like are BigInt arithmetic on the scaled integers,
\* a TypeError when the operand is the sentinel, whose n is undefined
\* a sum that takes only the whole part of the operand
PlusWholePart(a, b) == a + TruncDiv(b, SHIFT) * SHIFT

Plus(a, b) == a + b

Minus(a, b) == a - b

\* add(num), on an instance other than the sentinel
add(x, num) ==
    IF IsLiteral(num, 0) THEN x
    ELSE LET operand == Construct(num)
         IN IF IsThrown(operand) THEN operand
            ELSE IF ~HasN(operand) THEN Throws("TypeError")
            ELSE Instance(Plus(x.n, operand.n))

\* subtract(num), on an instance other than the sentinel
subtract(x, num) ==
    IF IsLiteral(num, 0) THEN x
    ELSE LET operand == Construct(num)
         IN IF IsThrown(operand) THEN operand
            ELSE IF ~HasN(operand) THEN Throws("TypeError")
            ELSE Instance(Minus(x.n, operand.n))

\* the product of two scaled integers, left at twice the scale
TimesUnscaled(a, b) == a * b

\* #divRound(this.n * operand.n, SHIFT), the generic product of multiply
TimesScaled(a, b) == divRound(a * b, SHIFT)

\* multiply(num), on an instance other than the sentinel
multiply(x, num) ==
    IF IsLiteral(num, 1) THEN x
    ELSE IF IsLiteral(num, 0) THEN ZERO_CACHED
    ELSE IF IsLiteral(num, -1) THEN Instance(-x.n)
    ELSE IF IsSafeInteger(num) THEN Instance(divRound(x.n * num.value, 1))
    ELSE LET operand == Construct(num)
         IN IF IsThrown(operand) THEN operand
            ELSE IF ~HasN(operand) THEN Throws("TypeError")
            ELSE Instance(TimesScaled(x.n, operand.n))

\* divide(num) with a zero dividend answered by zero, whatever the divisor
divideByShortOnZero(x, num) ==
    IF IsLiteral(num, 1) THEN x
    ELSE IF x.n = 0 THEN ZERO_CACHED
    ELSE LET operand == Construct(num) IN
         IF IsThrown(operand) THEN operand
         ELSE IF ~HasN(operand) THEN Throws("TypeError")
         ELSE IF divideThrows(operand.n, FALSE) THEN Throws("RangeError")
         ELSE Instance(divide(x.n, operand.n, FALSE))

\* divide(num), on an instance other than the sentinel, for any form of num
divideBy(x, num) ==
    IF IsLiteral(num, 1) THEN x
    ELSE LET operand == Construct(num) IN
         IF IsThrown(operand) THEN operand
         ELSE IF ~HasN(operand) THEN Throws("TypeError")
         ELSE IF divideThrows(operand.n, FALSE) THEN Throws("RangeError")
         ELSE Instance(divide(x.n, operand.n, FALSE))

\* the scaled integer a comparison puts this.n against, without the SHIFT
CompareOperandUnscaled(num) ==
    IF IsSafeInteger(num) THEN Some(num.value)
    ELSE IF num.type = "string" /\ num = IntegerText(0) THEN Some(0)
    ELSE LET operand == Construct(num)
         IN IF HasN(operand) THEN Some(operand.n) ELSE None

\* the right-hand side of lt, lte, gt, gte and eq: BigInt(num) * SHIFT for a
\* safe integer, 0n for the string "0", else the operand's n, which is
\* undefined for the sentinel
CompareOperand(num) ==
    IF IsSafeInteger(num) THEN Some(num.value * SHIFT)
    ELSE IF num.type = "string" /\ num = IntegerText(0) THEN Some(0)
    ELSE LET operand == Construct(num)
         IN IF HasN(operand) THEN Some(operand.n) ELSE None

\* the names of the five comparison methods
Comparisons == {"lt", "lte", "gt", "gte", "eq"}

\* JavaScript's <, <=, >, >= and === on two values that are a BigInt or
\* undefined: an undefined side makes a relational comparison false, and
\* undefined === undefined is true
Relate(rel, lhs, rhs) ==
    IF rel = "eq"
    THEN IF lhs.present /\ rhs.present THEN lhs.value = rhs.value
         ELSE ~lhs.present /\ ~rhs.present
    ELSE /\ lhs.present
         /\ rhs.present
         /\ CASE rel = "lt" -> lhs.value < rhs.value
              [] rel = "lte" -> lhs.value <= rhs.value
              [] rel = "gt" -> lhs.value > rhs.value
              [] rel = "gte" -> lhs.value >= rhs.value

\* x.lt(num), x.lte(num), x.gt(num), x.gte(num), x.eq(num)
Compares(rel, x, num) ==
    Relate(rel, IF HasN(x) THEN Some(x.n) ELSE None, CompareOperand(num))

\* "1" + "0".repeat(k)
PowerOfTenText(k) == Text("", <<1>> \o [i \in 1..k |-> 0], FALSE, << >>)

\* BigDecimal.pow10(exponent), for an integer exponent
pow10(exponent) ==
    IF exponent = 0 THEN ONE_CACHED
    ELSE IF exponent = 1 THEN Construct(Number(10))
    ELSE IF exponent < 0 THEN divideBy(ONE_CACHED, PowerOfTenText(-exponent))
    ELSE Construct(PowerOfTenText(exponent))

(***************************************************************************)
(* BigDecimal expressions evaluated on their own: each action evaluates    *)
(* one expression on operands drawn from a bounded set, in a run that has  *)
(* evaluated none yet, and keeps the operands and the outcome in calc.     *)
(***************************************************************************)
\* the largest exponent handed to pow10
MaxExponent == 5

\* BigDecimal.pow10(n).multiply(BigDecimal.pow10(-n)).eq(1)
EvalPow10 ==
    /\ calc = NoCalc
    /\ \E exponent \in 0..MaxExponent :
          LET up == pow10(exponent)
              down == pow10(-exponent)
              product == multiply(up, down)
          IN calc' = [op |-> "pow10", exponent |-> exponent, up |-> up,
                      down |-> down, product |-> product,
                      isOne |-> Compares("eq", product, Number(1))]
    /\ UNCHANGED <<loadVars, runVars, objects, exitVars>>

(***************************************************************************)
(* C11: pow10(n).multiply(pow10(-n)).eq(1)                                 *)
(***************************************************************************)
\* pow10(-n) is the exact reciprocal of 10^n
exactReciprocal == HasN(calc.down) /\ calc.down.n * Pow10(calc.exponent) = SHIFT

\* C11, as stated: for every integer n >= 0, pow10(n).multiply(pow10(-n)).eq(1)
\* is true, and pow10(-n) is the exact power of ten.
C11_ProductIsOneForEveryExponent ==
    calc.op = "pow10" => calc.isOne /\ exactReciprocal

\* C11, amended: for 0 <= n <= DEC the product is 1 and pow10(-n) is the exact
\* power of ten; for n > DEC, 10^-n is less than half a unit of the last
\* decimal, pow10(-n) is rounded to zero and the product is zero, not one.
C11_ProductIsOneWithinDecimals ==
    calc.op = "pow10" =>
        IF calc.exponent <= DEC
        THEN calc.isOne /\ exactReciprocal
        ELSE calc.down = Instance(0) /\ calc.product = Instance(0) /\ ~calc.isOne

\* the smallest power of ten the decimals hold: one unit of the last decimal
C11_OneUnitTimesItsReciprocal ==
    /\ calc.op = "pow10"
    /\ calc.exponent = DEC
    /\ calc.down = Instance(1)
    /\ calc.isOne

(***************************************************************************)
(* BigInt at full width.  isClose compares with tolerances written as      *)
(* literals of up to ten decimals, so it is evaluated with the 18 decimals *)
(* of the source: a BigInt is held as its sign and the sequence of its     *)
(* decimal digits, most significant first, zero being the empty sequence.  *)
(***************************************************************************)
DECIMALS == 18

\* the digits without their leading zeros
StripZeros(ds) ==
    LET set == {i \in 1..Len(ds) : ds[i] # 0}
    IN IF set = {} THEN << >>
       ELSE SubSeq(ds, CHOOSE i \in set : \A j \in set : i <= j, Len(ds))

Zeros(k) == [i \in 1..k |-> 0]

\* the k-th digit from the right, k = 1 being the units
DigitAt(m, k) == IF k >= 1 /\ k <= Len(m) THEN m[Len(m) - k + 1] ELSE 0

MagLess(a, b) ==
    IF Len(a) # Len(b) THEN Len(a) < Len(b)
    ELSE \E i \in 1..Len(a) : a[i] < b[i] /\ \A j \in 1..(i - 1) : a[j] = b[j]

\* the carry into place k of a + b: some lower place overflows and every
\* place between it and k passes the carry on
CarryInto(a, b, k) ==
    \E j \in 1..(k - 1) :
        /\ DigitAt(a, j) + DigitAt(b, j) >= 10
        /\ \A i \in (j + 1)..(k - 1) : DigitAt(a, i) + DigitAt(b, i) = 9

MagAdd(a, b) ==
    LET w == Max2(Len(a), Len(b)) + 1
    IN StripZeros([i \in 1..w |->
           LET k == w - i + 1
           IN (DigitAt(a, k) + DigitAt(b, k) + (IF CarryInto(a, b, k) THEN 1 ELSE 0)) % 10])

\* the borrow from place k of a - b
BorrowFrom(a, b, k) ==
    \E j \in 1..(k - 1) :
        /\ DigitAt(a, j) < DigitAt(b, j)
        /\ \A i \in (j + 1)..(k - 1) : DigitAt(a, i) = DigitAt(b, i)

\* a - b for magnitudes with a >= b
MagSub(a, b) ==
    StripZeros([i \in 1..Len(a) |->
        LET k == Len(a) - i + 1
        IN (DigitAt(a, k) - DigitAt(b, k) - (IF BorrowFrom(a, b, k) THEN 1 ELSE 0) + 10) % 10])

\* a times one digit d: the units of the digit products, plus their tens
\* one place higher
TimesDigit(a, d) ==
    MagAdd(StripZeros([i \in 1..Len(a) |-> (a[i] * d) % 10]),
           StripZeros([i \in 1..Len(a) |-> (a[i] * d) \div 10] \o <<0>>))

RECURSIVE TimesFrom(_, _, _, _)
TimesFrom(a, b, k, sum) ==
    IF k > Len(b) THEN sum
    ELSE LET partial == TimesDigit(a, DigitAt(b, k))
             next == MagAdd(sum, IF partial = << >> THEN << >> ELSE partial \o Zeros(k - 1))
         IN InOrder(next, TimesFrom(a, b, k + 1, next))

MagTimes(a, b) == TimesFrom(a, b, 1, << >>)

\* the magnitude divided by 10^k, truncated
DropLow(m, k) == IF Len(m) > k THEN SubSeq(m, 1, Len(m) - k) ELSE << >>

Big(neg, mag) == [neg |-> neg /\ mag # << >>, mag |-> mag]

BigNegate(a) == Big(~a.neg, a.mag)

BigPlus(a, b) ==
    IF a.neg = b.neg THEN Big(a.neg, MagAdd(a.mag, b.mag))
    ELSE IF MagLess(a.mag, b.mag) THEN Big(b.neg, MagSub(b.mag, a.mag))
    ELSE Big(a.neg, MagSub(a.mag, b.mag))

BigMinus(a, b) == BigPlus(a, BigNegate(b))

BigTimes(a, b) == Big(a.neg # b.neg, MagTimes(a.mag, b.mag))

BigLess(a, b) ==
    IF a.neg # b.neg THEN a.neg
    ELSE IF a.neg THEN MagLess(b.mag, a.mag)
    ELSE MagLess(a.mag, b.mag)

\* BigInt(sign + digits)
BigOfDigits(sign, digits) == Big(sign = "-", StripZeros(digits))

\* #divRound(dividend, SHIFT) at full width: the quotient truncated toward
\* zero plus ((dividend * 2n) / SHIFT) % 2n, which carries the dividend's sign
BigDivRoundShift(dividend) ==
    LET quotient == DropLow(dividend.mag, DECIMALS)
        doubled == DropLow(MagAdd(dividend.mag, dividend.mag), DECIMALS)
        odd == DigitAt(doubled, 1) % 2
    IN Big(dividend.neg, IF odd = 1 THEN MagAdd(quotient, <<1>>) ELSE quotient)

\* new BigDecimal(string) at full width
BigConstruct(text) ==
    IF ~text.dot THEN Instance(BigOfDigits(text.sign, text.ints \o Zeros(DECIMALS)))
    ELSE LET kept == Slice(text.decis, DECIMALS)
             whole == BigOfDigits(text.sign, text.ints \o kept \o Zeros(DECIMALS - Len(kept)))
             up == ROUNDED /\ Len(text.decis) > DECIMALS /\ text.decis[DECIMALS + 1] >= 5
         IN Instance(IF up THEN BigPlus(whole, Big(FALSE, <<1>>)) ELSE whole)

\* abs()
BigAbs(a) == Big(FALSE, a.mag)

\* max(other)
BigMax(a, b) == IF BigLess(a, b) THEN b ELSE a

\* the literals of isClose
Thousand == Text("", <<1, 0, 0, 0>>, FALSE, << >>)

One == Text("", <<1>>, FALSE, << >>)

Tolerance(places) == Text("", <<0>>, TRUE, Zeros(places - 1) \o <<1>>)

\* the tolerance bands of isClose: [relative, absolute] by the magnitude maxVal
ToleranceBand(maxVal) ==
    IF ~BigLess(maxVal, BigConstruct(Thousand).n)
    THEN [relative |-> BigConstruct(Tolerance(6)).n, absolute |-> BigConstruct(Tolerance(4)).n]
    ELSE IF ~BigLess(maxVal, BigConstruct(One).n)
    THEN [relative |-> BigConstruct(Tolerance(7)).n, absolute |-> BigConstruct(Tolerance(7)).n]
    ELSE [relative |-> BigConstruct(Tolerance(10)).n, absolute |-> BigConstruct(Tolerance(10)).n]

\* x.isClose(num) at full width, num a string or an instance
isClose(x, num) ==
    LET other == IF num.type = "instance" THEN num ELSE BigConstruct(num) IN
    IF ~HasN(x) \/ ~HasN(other) THEN FALSE
    ELSE IF x.n = other.n THEN TRUE
    ELSE LET diff == BigAbs(BigMinus(x.n, other.n))
             maxVal == BigMax(BigAbs(x.n), BigAbs(other.n))
             band == ToleranceBand(maxVal)
             threshold == BigMax(BigDivRoundShift(BigTimes(band.relative, maxVal)),
                                 band.absolute)
         IN ~BigLess(threshold, diff)

\* the decimal strings isClose is evaluated on
CloseTexts ==
    {Tolerance(11),                                   \* "0.00000000001"
     Text("", <<0>>, TRUE, Zeros(10) \o <<2>>),       \* "0.00000000002"
     Text("", <<0>>, TRUE, <<2, 5>>),                 \* "0.25"
     Text("", <<0>>, TRUE, <<5>>),                    \* "0.5"
     Text("-", <<0>>, TRUE, <<5>>),                   \* "-0.5"
     One,                                             \* "1"
     Text("", <<1>>, TRUE, Zeros(6) \o <<1>>),        \* "1.0000001"
     Text("", <<1, 0, 0, 0>>, TRUE, <<0, 0, 0, 1>>),  \* "1000.0001"
     Text("", <<1, 0, 0, 0>>, TRUE, <<0, 0, 0, 2>>)}  \* "1000.0002"

\* new BigDecimal(a).isClose(b)
EvalIsClose ==
    /\ calc = NoCalc
    /\ \E a \in CloseTexts, b \in CloseTexts :
          calc' = [op |-> "isClose", a |-> a, b |-> b,
                   close |-> isClose(BigConstruct(a), b)]
    /\ UNCHANGED <<loadVars, runVars, objects, exitVars>>

(***************************************************************************)
(* C12: isClose on small magnitudes                                        *)
(***************************************************************************)
\* both values are below 1 in magnitude and differ by half of the larger one
halfApartBelowOne(a, b) ==
    LET x == BigConstruct(a).n
        y == BigConstruct(b).n
        diff == BigAbs(BigMinus(x, y))
        maxVal == BigMax(BigAbs(x), BigAbs(y))
    IN /\ x # y
       /\ BigLess(maxVal, BigConstruct(One).n)
       /\ BigPlus(diff, diff) = maxVal

\* C12, as stated: new BigDecimal("0.00000000001").isClose("0.00000000002") is
\* false; two values below 1 whose difference is half of the larger value are
\* not reported close.
C12_HalfApartSmallValuesNotClose ==
    calc.op = "isClose" /\ halfApartBelowOne(calc.a, calc.b) => ~calc.close

\* the example of C12 is reported close: the difference 1e-11 is below the
\* absolute tolerance 1e-10 of the small-magnitude band
C12_ExampleReportedClose ==
    /\ calc.op = "isClose"
    /\ calc.a = Tolerance(11)
    /\ calc.b = Text("", <<0>>, TRUE, Zeros(10) \o <<2>>)
    /\ calc.close

\* the scaled integers of the instances the methods are evaluated on: zero,
\* one, whole numbers and fractions of either sign, down to one unit of the
\* last decimal
ScaledValues == {-2 * SHIFT, -1500, -SHIFT, -1, 0, 1, 500, SHIFT, 1500, 2 * SHIFT}

\* the instances a method is called on, other than the sentinel
Instances == {Instance(n) : n \in ScaledValues}

\* the integers handed to a method as a number or as a string
IntegerValues == -2..2

\* the arguments of a comparison: numbers, strings and instances, among them
\* the number NaN and the sentinel
CompareOperands ==
    {Number(k) : k \in IntegerValues} \cup {IntegerText(k) : k \in IntegerValues}
    \cup {Text("", <<0>>, TRUE, <<5>>), Text("-", <<1>>, TRUE, <<5>>), NumberNaN, NAN}
    \cup Instances

\* x.lt(num), x.lte(num), x.gt(num), x.gte(num) or x.eq(num)
EvalCompare ==
    /\ calc = NoCalc
    /\ \E rel \in Comparisons, x \in Instances \cup {NAN}, num \in CompareOperands :
          calc' = [op |-> "compare", rel |-> rel, x |-> x, num |-> num,
                   holds |-> Compares(rel, x, num)]
    /\ UNCHANGED <<loadVars, runVars, objects, exitVars>>

(***************************************************************************)
(* C13: comparisons with the NaN sentinel                                  *)
(***************************************************************************)
\* the operand is the sentinel, handed over as such or as the number NaN
isSentinel(num) == Construct(num) = NAN

\* C13, as stated: eq, lt, lte, gt and gte return false whenever either
\* operand is the NaN sentinel, the sentinel compared with itself included.
C13_SentinelComparesFalse ==
    calc.op = "compare" /\ (calc.x = NAN \/ isSentinel(calc.num)) => ~calc.holds

\* BigDecimal.NaN.eq(BigDecimal.NaN) is true: both sides of === are undefined
C13_SentinelEqualsItself ==
    /\ calc.op = "compare"
    /\ calc.rel = "eq"
    /\ calc.x = NAN
    /\ calc.num = NAN
    /\ calc.holds

\* zero as a number, as the strings "0" and "0.0", and as an instance
ZeroOperands ==
    {Number(0), IntegerText(0), Text("", <<0>>, TRUE, <<0>>), Instance(0)}

\* the divisors: every form of zero, and numbers, strings and instances
\* other than zero
DivideOperands ==
    ZeroOperands
    \cup {Number(k) : k \in IntegerValues} \cup {IntegerText(k) : k \in IntegerValues}
    \cup {Text("", <<0>>, TRUE, <<5>>), Text("-", <<1>>, TRUE, <<5>>),
          Text("", <<0>>, TRUE, <<0, 0, 0, 4>>), Text("", <<0>>, TRUE, <<0, 0, 0, 5>>)}
    \cup (Instances \ {Instance(0)})

\* x.divide(num)
EvalDivide ==
    /\ calc = NoCalc
    /\ \E x \in Instances, num \in DivideOperands :
          calc' = [op |-> "divide", x |-> x, num |-> num, quotient |-> divideBy(x, num)]
    /\ UNCHANGED <<loadVars, runVars, objects, exitVars>>

(***************************************************************************)
(* C14: division by zero                                                   *)
(***************************************************************************)
\* C14: divide by zero, given as the number 0, as the string "0" or "0.0" or
\* as a zero-valued instance, ends with an error for every dividend, zero
\* included, and returns no value.
C14_DivideByZeroThrows ==
    calc.op = "divide" /\ calc.num \in ZeroOperands =>
        IsThrown(calc.quotient) /\ ~HasN(calc.quotient)

\* zero divided by the string "0.0" ends with the RangeError of the BigInt
\* division
C14_ZeroByZeroStringThrows ==
    /\ calc.op = "divide"
    /\ calc.x = Instance(0)
    /\ calc.num = Text("", <<0>>, TRUE, <<0>>)
    /\ calc.quotient = Throws("RangeError")

\* the operands of add and subtract: instances, and the literal 0 as a
\* number and as a string, which takes the short-circuit
AddOperands == Instances \cup {Number(0), IntegerText(0)}

\* a.add(b), b.add(a) and a.add(b).subtract(b).eq(a)
EvalAdd ==
    /\ calc = NoCalc
    /\ \E a \in Instances, b \in AddOperands :
          LET sum == add(a, b)
              back == subtract(sum, b)
          IN calc' = [op |-> "add", a |-> a, b |-> b, sum |-> sum,
                      commuted |-> add(Construct(b), a), back |-> back,
                      restored |-> Compares("eq", back, a)]
    /\ UNCHANGED <<loadVars, runVars, objects, exitVars>>

(***************************************************************************)
(* C15: addition is exact                                                  *)
(***************************************************************************)
\* C15: for all values a and b other than the sentinel, a.add(b) is the exact
\* sum of the scaled integers and equals b.add(a), and
\* a.add(b).subtract(b).eq(a) holds, also when b is the literal 0.
C15_AdditionExact ==
    calc.op = "add" =>
        /\ calc.sum = Instance(calc.a.n + Construct(calc.b).n)
        /\ calc.commuted = calc.sum
        /\ calc.back = calc.a
        /\ calc.restored

\* one unit of the last decimal added to -1.5 and taken away again
C15_LastDecimalAddedAndRemoved ==
    /\ calc.op = "add"
    /\ calc.a = Instance(-1500)
    /\ calc.b = Instance(1)
    /\ calc.sum = Instance(-1499)
    /\ calc.restored

\* the literal 0 takes the short-circuit and leaves the value as it is
C15_LiteralZeroIsIdentity ==
    /\ calc.op = "add"
    /\ calc.b = Number(0)
    /\ calc.a = Instance(500)
    /\ calc.sum = calc.a
    /\ calc.restored

\* the canonical string as a decimal string
AsText(str) ==
    Text(IF str.neg THEN "-" ELSE "", DigitsOf(str.int), str.frac # << >>, str.frac)

\* the digits the strings are written with
TextDigits == {0, 1, 5, 9}

\* the whole parts of the strings
TextWholes == {0, 1, 2, 10, 12, 100}

\* the decimal strings with at most DEC fractional digits: a whole part
\* without leading zeros, a point when fractional digits follow, and a minus
\* sign on some of the values other than zero
DecimalTexts ==
    {s \in {Text(sign, DigitsOf(w), decis # << >>, decis) :
              sign \in {"", "-"}, w \in TextWholes, decis \in SeqsUpTo(TextDigits, DEC)} :
        s.sign = "-" => \E i \in 1..Len(s.ints \o s.decis) : (s.ints \o s.decis)[i] # 0}

\* new BigDecimal(s).toFixed(k), k the number of fractional digits of s
EvalToFixed ==
    /\ calc = NoCalc
    /\ \E s \in DecimalTexts :
          LET made == Construct(s)
          IN calc' = [op |-> "toFixed", s |-> s, made |-> made,
                      fixed |-> AsText(toFixed(made.n, Len(s.decis)))]
    /\ UNCHANGED <<loadVars, runVars, objects, exitVars>>

\* the scaled integers whose canonical string is parsed back
TextValues == (-1100..1100) \cup ScaledValues

\* new BigDecimal(x.toString())
EvalToString ==
    /\ calc = NoCalc
    /\ \E n \in TextValues :
          LET str == AsText(toString(n))
          IN calc' = [op |-> "toString", x |-> Instance(n), str |-> str,
                      again |-> Construct(str)]
    /\ UNCHANGED <<loadVars, runVars, objects, exitVars>>

C16_NegativeUnitReadBack ==
    /\ calc.op = "toString"
    /\ calc.x = Instance(-1)
    /\ calc.str = Text("-", <<0>>, TRUE, <<0, 0, 1>>)
    /\ calc.again = calc.x

\* the methods that take an operand
Methods == {"add", "subtract", "multiply", "divide"} \cup Comparisons

\* x.method(num); a comparison answers with a truth value, the others with an
\* instance or an exception
Apply(method, x, num) ==
    CASE method = "add" -> add(x, num)
      [] method = "subtract" -> subtract(x, num)
      [] method = "multiply" -> multiply(x, num)
      [] method = "divide" -> divideBy(x, num)
      [] OTHER -> Compares(method, x, num)

\* the integers handed over in the three forms: those with a literal
\* short-circuit, those interned in the cache and others
FormValues == {-100, -7, -2, -1, 0, 1, 2, 7, 10, 100}

\* x.method(v) with v as a number, as a decimal string and as an instance
EvalForms ==
    /\ calc = NoCalc
    /\ \E method \in Methods, x \in Instances, v \in FormValues :
          calc' = [op |-> "forms", method |-> method, x |-> x, v |-> v,
                   asNumber |-> Apply(method, x, Number(v)),
                   asString |-> Apply(method, x, IntegerText(v)),
                   asInstance |-> Apply(method, x, Instance(v * SHIFT))]
    /\ UNCHANGED <<loadVars, runVars, objects, exitVars>>

(***************************************************************************)
(* C17: the three forms of an operand                                      *)
(***************************************************************************)
\* C17: for every instance x other than the sentinel and every safe integer v, add,
\* subtract, multiply, divide and the comparisons give the same result for v
\* as a number, as a decimal string and as an instance, the literal
\* short-circuits and the safe-integer fast paths included.
C17_OperandFormsAgree ==
    calc.op = "forms" =>
        /\ calc.asNumber = calc.asString
        /\ calc.asString = calc.asInstance

\* 1.5 times -1, by the short-circuit of the number and of the string and by
\* the generic product of the instance
C17_MinusOneThreeWays ==
    /\ calc.op = "forms"
    /\ calc.method = "multiply"
    /\ calc.x = Instance(1500)
    /\ calc.v = -1
    /\ calc.asNumber = Instance(-1500)
    /\ calc.asString = Instance(-1500)
    /\ calc.asInstance = Instance(-1500)

\* -0.001 times 7, by the safe-integer fast path and by the generic product
C17_FastPathAgrees ==
    /\ calc.op = "forms"
    /\ calc.method = "multiply"
    /\ calc.x = Instance(-1)
    /\ calc.v = 7
    /\ calc.asNumber = Instance(-7)
    /\ calc.asInstance = Instance(-7)

\* the largest magnitude of a dividend handed to #divRound
MaxDividend == 25

\* the divisors handed to #divRound: of either sign, zero apart
Divisors == (-6..6) \ {0}

\* #divRound(dividend, divisor)
EvalDivRound ==
    /\ calc = NoCalc
    /\ \E dividend \in -MaxDividend..MaxDividend, divisor \in Divisors :
          calc' = [op |-> "divRound", dividend |-> dividend, divisor |-> divisor,
                   rounded |-> divRound(dividend, divisor)]
    /\ UNCHANGED <<loadVars, runVars, objects, exitVars>>

\* x.multiply(y) and x.divide(y) on two instances
EvalProduct ==
    /\ calc = NoCalc
    /\ \E x \in Instances, y \in Instances \ {Instance(0)} :
          calc' = [op |-> "product", x |-> x, y |-> y,
                   product |-> multiply(x, y), quotient |-> divideBy(x, y)]
    /\ UNCHANGED <<loadVars, runVars, objects, exitVars>>

(***************************************************************************)
(* C20: #divRound rounds to the nearest integer, ties away from zero       *)
(***************************************************************************)
\* q is the integer nearest to a / b, and on a tie the one of larger magnitude
nearestTiesAway(q, a, b) ==
    /\ 2 * Abs(a - q * b) <= Abs(b)
    /\ 2 * Abs(a - q * b) = Abs(b) => Abs(q * b) > Abs(a)

\* C20: for every dividend and every divisor other than zero, of either sign,
\* #divRound returns the integer nearest to dividend / divisor, a tie resolved
\* toward the larger magnitude; multiply and divide are therefore within half
\* a unit of the last decimal of the exact product and quotient.
C20_DivRoundNearestTiesAway ==
    /\ calc.op = "divRound" => nearestTiesAway(calc.rounded, calc.dividend, calc.divisor)
    /\ calc.op = "product" =>
          /\ nearestTiesAway(calc.product.n, calc.x.n * calc.y.n, SHIFT)
          /\ nearestTiesAway(calc.quotient.n, calc.x.n * SHIFT, calc.y.n)

\* -5 / 2 is the tie -2.5, rounded to -3
C20_NegativeTieRoundedAway ==
    /\ calc.op = "divRound"
    /\ calc.dividend = -5
    /\ calc.divisor = 2
    /\ calc.rounded = -3

\* 0.001 * 0.5 is the tie 0.0005, rounded to 0.001
C20_ProductTieRoundedUp ==
    /\ calc.op = "product"
    /\ calc.x = Instance(1)
    /\ calc.y = Instance(500)
    /\ calc.product = Instance(1)

(***************************************************************************)
(* C21: construction from a string with more than DEC fractional digits    *)
(***************************************************************************)
\* how many fractional digits beyond DEC the long strings have, at most
MaxExtraDigits == 2

\* the whole parts of the long strings
LongWholes == {0, 1, 12}

\* decimal strings with more than DEC fractional digits, of either sign
LongTexts ==
    {Text(sign, DigitsOf(w), TRUE, decis) :
        sign \in {"", "-"}, w \in LongWholes,
        decis \in UNION {[1..(DEC + k) -> TextDigits] : k \in 1..MaxExtraDigits}}

\* new BigDecimal(s), s a string with more than DEC fractional digits
EvalConstruct ==
    /\ calc = NoCalc
    /\ \E s \in LongTexts :
          calc' = [op |-> "construct", s |-> s, made |-> Construct(s)]
    /\ UNCHANGED <<loadVars, runVars, objects, exitVars>>

\* the exact value of a decimal string, in units of its own last digit
exactInOwnUnits(s) == BigIntOf(s.sign, s.ints \o s.decis)

\* the constructed value differs from the string's exact value by at most
\* half of 10^-DEC (both taken in units of the string's last digit)
withinHalfUnit(s, made) ==
    LET unit == Pow10(Len(s.decis) - DEC)
    IN 2 * Abs(made.n * unit - exactInOwnUnits(s)) <= unit

\* C21: a string with more than DEC fractional digits, positive or negative,
\* is constructed as the representable value nearest to its exact value: the
\* two differ by at most half of 10^-DEC.
C21_LongStringsRoundedToNearest ==
    calc.op = "construct" => HasN(calc.made) /\ withinHalfUnit(calc.s, calc.made)

\* "-0.0009" is constructed as +0.001: the rounding unit is added to the
\* negative value
C21_NegativeRoundedAcrossZero ==
    /\ calc.op = "construct"
    /\ calc.s = Text("-", <<0>>, TRUE, <<0, 0, 0, 9>>)
    /\ calc.made = Instance(1)

(***************************************************************************)
(* significantDigits and pow                                               *)
(***************************************************************************)
\* the loop of significantDigits: one digit less for each trailing zero of rem
RECURSIVE DigitsLeft(_, _)
DigitsLeft(rem, digits) ==
    IF rem % 10 = 0 THEN DigitsLeft(rem \div 10, digits - 1) ELSE digits

\* the count that takes every fraction to have DEC digits
significantDigitsUntrimmed(x) ==
    IF ~HasN(x) \/ TruncRem(x.n, SHIFT) = 0 THEN 0 ELSE DEC

\* significantDigits()
significantDigits(x) ==
    IF ~HasN(x) THEN 0
    ELSE LET rem == TruncRem(TruncRem(x.n, SHIFT) + SHIFT, SHIFT)
         IN IF rem = 0 THEN 0 ELSE DigitsLeft(rem, DEC)

\* the loop of pow: binary exponentiation, every product rounded by multiply
RECURSIVE PowLoop(_, _, _)
PowLoop(res, base, n) ==
    IF n > 0
    THEN PowLoop(IF n % 2 = 1 THEN multiply(res, base) ELSE res,
                 multiply(base, base), n \div 2)
    ELSE res

\* pow(exponent), for an exponent that is a safe integer (a fractional
\* exponent goes through Math.pow on floating-point numbers)
RECURSIVE pow(_, _)
pow(x, exponent) ==
    LET exp == Construct(exponent) IN
    IF Compares("eq", exp, Number(0)) THEN ONE_CACHED
    ELSE IF Compares("eq", exp, Number(1)) THEN x
    ELSE IF Compares("eq", x, Number(0)) THEN ZERO_CACHED
    ELSE IF Compares("eq", x, Number(1)) THEN ONE_CACHED
    ELSE LET expNum == toNumber(exp.n).num
         IN IF expNum < 0 THEN divideBy(ONE_CACHED, pow(x, Number(-expNum)))
            ELSE PowLoop(ONE_CACHED, Instance(x.n), expNum)

\* the largest exponent, in absolute value
MaxPower == 3

\* the bases, as scaled integers: -0.15 to 0.15
PowBases == -150..150

\* x.pow(e)
EvalPow ==
    /\ calc = NoCalc
    /\ \E n \in PowBases, e \in (-MaxPower)..MaxPower :
          calc' = [op |-> "pow", x |-> Instance(n), exponent |-> e,
                   power |-> pow(Instance(n), Number(e))]
    /\ UNCHANGED <<loadVars, runVars, objects, exitVars>>

(***************************************************************************)
(* C22: pow without precision loss                                         *)
(***************************************************************************)
\* n^e on integers
RECURSIVE IntegerPower(_, _)
IntegerPower(n, e) == IF e = 0 THEN 1 ELSE n * IntegerPower(n, e - 1)

\* the exact power of the value n / SHIFT, rounded once to DEC decimals
exactPowerRoundedOnce(n, e) ==
    IF e = 0 THEN SHIFT ELSE divRound(IntegerPower(n, e), IntegerPower(SHIFT, e - 1))

\* C22: for every base and every integer exponent e >= 0, pow gives the exact
\* power rounded once to DEC decimals; for e < 0 it gives the reciprocal of
\* the result for -e, whenever that result has a reciprocal.
C22_PowerExactRoundedOnce ==
    calc.op = "pow" =>
        IF calc.exponent >= 0
        THEN calc.power = Instance(exactPowerRoundedOnce(calc.x.n, calc.exponent))
        ELSE LET positive == exactPowerRoundedOnce(calc.x.n, -calc.exponent)
             IN positive # 0
                    => calc.power = Instance(divRound(SHIFT * SHIFT, positive))

\* 0.08 cubed is 0.000512, which rounds to 0.001; pow rounds 0.08 squared to
\* 0.006 first and returns 0
C22_CubeLostToIntermediateRounding ==
    /\ calc.op = "pow"
    /\ calc.x = Instance(80)
    /\ calc.exponent = 3
    /\ exactPowerRoundedOnce(80, 3) = 1
    /\ calc.power = Instance(0)

(***************************************************************************)
(* C23: toFixed(length)                                                    *)
(***************************************************************************)
\* the largest length asked of toFixed: beyond DEC
MaxFixedLength == 5

\* x.toFixed(length)
EvalFixedLength ==
    /\ calc = NoCalc
    /\ \E n \in TextValues, length \in 0..MaxFixedLength :
          calc' = [op |-> "fixedLength", x |-> Instance(n), length |-> length,
                   fixed |-> toFixed(n, length)]
    /\ UNCHANGED <<loadVars, runVars, objects, exitVars>>

\* the fractional digits of the canonical form cut or zero-padded to length
cutOrPadded(frac, length) ==
    [i \in 1..length |-> IF i <= Len(frac) THEN frac[i] ELSE 0]

\* C23: for every value other than the sentinel and every length >= 0,
\* toFixed(length) has the sign and whole part of the canonical form and
\* exactly length fractional digits, those of the canonical form cut or
\* padded with zeros (none, and no decimal point, when length = 0); the
\* values 0 and 1 and the lengths above DEC included.
C23_ExactlyLengthFractionalDigits ==
    calc.op = "fixedLength" =>
        LET str == toString(calc.x.n)
        IN /\ calc.fixed.neg = str.neg
           /\ calc.fixed.int = str.int
           /\ Len(calc.fixed.frac) = calc.length
           /\ calc.fixed.frac = cutOrPadded(str.frac, calc.length)

\* 1 written with DEC + 1 fractional digits has only DEC of them
C23_OnePaddedShort ==
    /\ calc.op = "fixedLength"
    /\ calc.x = Instance(SHIFT)
    /\ calc.length = DEC + 1
    /\ calc.fixed.frac = ZERO_PAD

(***************************************************************************)
(* round and truncate                                                      *)
(***************************************************************************)
\* the value cut to the multiple of 10^-significantDigits toward zero
roundTowardZero(x, digits) ==
    LET shift == Pow10(DEC - digits)
    IN Instance(TruncDiv(x.n, shift) * shift)

\* round(significantDigits), on an instance other than the sentinel
round(x, digits) ==
    LET shift == Pow10(DEC - digits)
        roundedResult == multiply(Instance(divRound(x.n, shift)), BigIntValue(shift))
    IN Instance(roundedResult.n)

\* truncate(significantDigits), on an instance other than the sentinel
truncate(x, digits) ==
    LET stringValue == toString(x.n)
    IN IF stringValue.frac # << >>
       THEN Construct(Text(IF stringValue.neg THEN "-" ELSE "",
                           DigitsOf(stringValue.int), TRUE,
                           Slice(stringValue.frac, digits)))
       ELSE x

\* x.round(n) and x.truncate(n), each applied a second time as well
EvalRounding ==
    /\ calc = NoCalc
    /\ \E n \in TextValues, places \in 0..DEC :
          LET x == Instance(n)
              rounded == round(x, places)
              truncated == truncate(x, places)
          IN calc' = [op |-> "rounding", x |-> x, places |-> places,
                      rounded |-> rounded, truncated |-> truncated,
                      roundedAgain |-> round(rounded, places),
                      truncatedAgain |-> truncate(truncated, places)]
    /\ UNCHANGED <<loadVars, runVars, objects, exitVars>>

(***************************************************************************)
(* C24: round(n) and truncate(n)                                           *)
(***************************************************************************)
\* C24: for 0 <= n <= DEC and every value x other than the sentinel, round(n)
\* is the multiple of 10^-n nearest to x, a tie going to the larger
\* magnitude; truncate(n) is the multiple of 10^-n reached by dropping digits
\* toward zero; both have at most n fractional digits, they differ by at most
\* 10^-n, and each is idempotent.
C24_RoundNearestTruncateTowardZero ==
    calc.op = "rounding" =>
        LET unit == Pow10(DEC - calc.places)
            n == calc.x.n
            r == calc.rounded.n
            t == calc.truncated.n
        IN /\ r % unit = 0
           /\ t % unit = 0
           /\ significantDigits(calc.rounded) <= calc.places
           /\ significantDigits(calc.truncated) <= calc.places
           /\ 2 * Abs(r - n) <= unit
           /\ 2 * Abs(r - n) = unit => Abs(r) > Abs(n)
           /\ Abs(t) <= Abs(n)
           /\ Abs(n) - Abs(t) < unit
           /\ t * n >= 0
           /\ Abs(r - t) <= unit
           /\ calc.roundedAgain = calc.rounded
           /\ calc.truncatedAgain = calc.truncated

\* -1.005 to two places: rounded to -1.01, truncated to -1
C24_NegativeTieRoundedAndTruncated ==
    /\ calc.op = "rounding"
    /\ calc.x = Instance(-1005)
    /\ calc.places = 2
    /\ calc.rounded = Instance(-1010)
    /\ calc.truncated = Instance(-1000)

(***************************************************************************)
(* C25: significantDigits()                                                *)
(***************************************************************************)
\* x.significantDigits(), x any value or the sentinel
EvalSignificantDigits ==
    /\ calc = NoCalc
    /\ \E x \in {Instance(n) : n \in TextValues} \cup {NAN} :
          calc' = [op |-> "significantDigits", x |-> x,
                   digits |-> significantDigits(x)]
    /\ UNCHANGED <<loadVars, runVars, objects, exitVars>>

\* C25: for every value, negative ones included, significantDigits() is the
\* number of digits after the decimal point of the canonical string; it is 0
\* exactly for the integers and for the sentinel.
C25_DigitsOfCanonicalFraction ==
    calc.op = "significantDigits" =>
        /\ HasN(calc.x) => calc.digits = Len(toString(calc.x.n).frac)
        /\ calc.digits = 0 <=> (~HasN(calc.x) \/ calc.x.n % SHIFT = 0)

\* -1.01, held as -1010 with DEC = 3, has two significant digits
C25_NegativeWithTrailingZero ==
    /\ calc.op = "significantDigits"
    /\ calc.x = Instance(-1010)
    /\ toString(-1010).frac = <<0, 1>>
    /\ calc.digits = 2

\* the sentinel has none
C25_SentinelHasNone ==
    /\ calc.op = "significantDigits"
    /\ calc.x = NAN
    /\ calc.digits = 0

(***************************************************************************)
(* BigDecimal instances by identity: objects is the list of the instances  *)
(* in existence, the interned ones first, then the sentinel, then those    *)
(* the calls create.  An instance holds n and the memoized string _str.    *)
(***************************************************************************)
\* a new instance: n assigned, no string memoized
Object(n) == [n |-> n, str |-> None]

\* BigDecimal.NaN as created by createNaN: no n, no string memoized
SentinelObject == [str |-> None]

\* what toString computes from an instance
Rendering(object) == IF HasN(object) THEN toString(object.n) ELSE [nan |-> TRUE]

\* a toString that memoizes the string of zero for every instance
MemoizedAsZero(object) == [object EXCEPT !.str = Some(toString(0))]

\* toString(): the memoized string if there is one, else the rendering,
\* which is memoized
Memoized(object) ==
    IF object.str.present THEN object
    ELSE [object EXCEPT !.str = Some(Rendering(object))]

\* initializeCommonCache and createNaN: the instances of a freshly loaded module
InitialObjects ==
    [i \in 1..Len(commonValues) |-> Memoized(Object(createWithoutCache(commonValues[i])))]
    \o <<SentinelObject>>

\* COMMON_CACHE[key], as a position in objects
InternedId(key) == CHOOSE i \in 1..Len(commonValues) : KeyOf(commonValues[i]) = key

\* BigDecimal.NaN, as a position in objects
SentinelId == Len(commonValues) + 1

\* a reference to an instance, handed to a method
Ref(id) == [type |-> "instance", ref |-> id]

\* the value-level view of an argument: a reference becomes the instance
ValueOf(objs, arg) ==
    IF "ref" \notin DOMAIN arg THEN arg
    ELSE IF HasN(objs[arg.ref]) THEN Instance(objs[arg.ref].n) ELSE NAN

\* new BigDecimal(value) by identity: the instance handed in, an interned
\* instance, the sentinel, or a fresh instance
ConstructRef(value) ==
    IF "ref" \in DOMAIN value THEN value
    ELSE IF value = NumberNaN THEN Ref(SentinelId)
    ELSE IF InCommonCache(KeyOf(value)) THEN Ref(InternedId(KeyOf(value)))
    ELSE LET made == Construct(value)
         IN IF IsThrown(made) THEN made ELSE [fresh |-> made.n]

\* this.method(arg) by identity: this, ZERO_CACHED, or a fresh instance
MethodResult(objs, method, this, arg) ==
    IF method \in {"add", "subtract"} /\ IsLiteral(arg, 0) THEN Ref(this)
    ELSE IF method \in {"multiply", "divide"} /\ IsLiteral(arg, 1) THEN Ref(this)
    ELSE IF method = "multiply" /\ IsLiteral(arg, 0) THEN Ref(InternedId(IntegerText(0)))
    ELSE LET made == Apply(method, Instance(objs[this].n), ValueOf(objs, arg))
         IN IF IsThrown(made) THEN made ELSE [fresh |-> made.n]

\* how many instances the calls may create
MaxObjects == 2

\* the scaled integers of the instances followed: -2 to 2
ObjectRange == (-2 * SHIFT)..(2 * SHIFT)

\* the literals handed to the constructor and to the methods
ObjectLiterals ==
    {Number(0), Number(1), Number(2), IntegerText(1), Text("", <<0>>, TRUE, <<5>>),
     Text("", <<1>>, TRUE, <<5>>), NumberNaN}

\* the instances methods are called on and that are handed over: 0, 1 and 0.5
\* of the interned ones, and those the calls created
Followed(objs) ==
    {InternedId(IntegerText(0)), InternedId(IntegerText(1)),
     InternedId(Text("", <<0>>, TRUE, <<5>>))}
    \cup (SentinelId + 1)..Len(objs)

\* the outcome of a call takes its place in objects when it is a fresh instance
Allocate(outcome) ==
    IF "fresh" \in DOMAIN outcome
    THEN /\ Len(objects) < Len(InitialObjects) + MaxObjects
         /\ outcome.fresh \in ObjectRange
         /\ objects' = Append(objects, Object(outcome.fresh))
    ELSE UNCHANGED objects

\* new BigDecimal(value)
CallNew ==
    /\ \E value \in ObjectLiterals \cup {Ref(id) : id \in Followed(objects)} :
          Allocate(ConstructRef(value))
    /\ UNCHANGED <<loadVars, runVars, calc, exitVars>>

\* x.add(arg), x.subtract(arg), x.multiply(arg) or x.divide(arg)
CallMethod ==
    /\ \E method \in {"add", "subtract", "multiply", "divide"},
          this \in Followed(objects),
          arg \in ObjectLiterals \cup {Ref(id) : id \in Followed(objects)} :
          Allocate(MethodResult(objects, method, this, arg))
    /\ UNCHANGED <<loadVars, runVars, calc, exitVars>>

\* x.toString(), also as called by toFixed, toNumber and truncate
CallToString ==
    /\ \E this \in Followed(objects) \cup {SentinelId} :
          objects' = [objects EXCEPT ![this] = Memoized(objects[this])]
    /\ UNCHANGED <<loadVars, runVars, calc, exitVars>>

(***************************************************************************)
(* ExitHandlers.ts.  Each call of attachExitHandlers with a callback has a *)
(* number: it names the WeakRef the call adds and the didExit flag of the  *)
(* call's closure.  A handler is named by its event and its closure.       *)
(***************************************************************************)
\* the events trapEvent is called with, in the order of the calls
TrappedEvents(os) ==
    IF os = "win32" THEN <<"SIGINT", "SIGHUP", "SIGBREAK", "SIGTERM", "beforeExit">>
    ELSE <<"SIGINT", "SIGHUP", "SIGTERM", "beforeExit">>

\* trapEvent(event) for each event in turn: the handler is attached, and
\* kept in attachedProcessListeners, while that list is empty
RECURSIVE TrapEvents(_, _, _, _)
TrapEvents(io, events, k, closure) ==
    IF k > Len(events) THEN io
    ELSE LET handler == [event |-> events[k], closure |-> closure]
             next == IF Len(io.attached) = 0
                     THEN [attached |-> Append(io.attached, handler),
                           listeners |-> Append(io.listeners, handler)]
                     ELSE io
         IN InOrder(next, TrapEvents(next, events, k + 1, closure))

\* weakRef.deref() gives the callback
IsLive(weakRef, dead) == weakRef.cb \notin dead

\* the handler of one closure: once, every registered callback that is still
\* alive is run and the dead WeakRefs are dropped
RunHandler(st, closure, dead) ==
    IF st.didExit[closure] THEN st
    ELSE [didExit |-> [st.didExit EXCEPT ![closure] = TRUE],
          registered |-> SelectSeq(st.registered, LAMBDA w : IsLive(w, dead)),
          run |-> st.run \o SelectSeq(st.registered, LAMBDA w : IsLive(w, dead))]

\* process.emit(event): the listeners of the event, in the order attached
RECURSIVE RunListeners(_, _, _, _, _)
RunListeners(st, ls, k, event, dead) ==
    IF k > Len(ls) THEN st
    ELSE LET next == IF ls[k].event = event THEN RunHandler(st, ls[k].closure, dead)
                     ELSE st
         IN InOrder(next, RunListeners(next, ls, k + 1, event, dead))

\* the callbacks of the program
Callbacks == {"flush", "close"}

\* every event a process may emit here
Events == {"SIGINT", "SIGHUP", "SIGBREAK", "SIGTERM", "beforeExit"}

\* how many calls of attachExitHandlers with a callback, how many events
MaxCalls == 2

MaxEvents == 2

\* attachExitHandlers(cb): nothing without a callback
AttachExitHandlers ==
    /\ \E cb \in (Callbacks \ collected) \cup {Undefined} :
          IF cb = Undefined
          THEN UNCHANGED <<registeredCallbacks, didExit, attachedProcessListeners, listeners>>
          ELSE /\ Len(didExit) < MaxCalls
               /\ registeredCallbacks'
                     = Append(registeredCallbacks, [ref |-> Len(didExit) + 1, cb |-> cb])
               /\ didExit' = Append(didExit, FALSE)
               /\ LET io == IF Len(attachedProcessListeners) = 0
                            THEN TrapEvents([attached |-> attachedProcessListeners,
                                             listeners |-> listeners],
                                            TrappedEvents(platform), 1, Len(didExit) + 1)
                            ELSE [attached |-> attachedProcessListeners,
                                  listeners |-> listeners]
                  IN /\ attachedProcessListeners' = io.attached
                     /\ listeners' = io.listeners
    /\ UNCHANGED <<platform, collected, fired>>
    /\ UNCHANGED <<loadVars, runVars, calc, objects>>

\* removeAllExitHandlers()
RemoveAllExitHandlers ==
    /\ registeredCallbacks' = << >>
    /\ listeners' = SelectSeq(listeners,
                              LAMBDA l : \A i \in 1..Len(attachedProcessListeners) :
                                             attachedProcessListeners[i] # l)
    /\ attachedProcessListeners' = << >>
    /\ UNCHANGED <<platform, collected, didExit, fired>>
    /\ UNCHANGED <<loadVars, runVars, calc, objects>>

\* the garbage collector reclaims a callback the program no longer holds
Collect ==
    /\ \E cb \in Callbacks \ collected : collected' = collected \cup {cb}
    /\ UNCHANGED <<platform, registeredCallbacks, attachedProcessListeners, listeners,
                   didExit, fired>>
    /\ UNCHANGED <<loadVars, runVars, calc, objects>>

\* the process emits an event: its listeners run
Emit ==
    /\ Len(fired) < MaxEvents
    /\ \E event \in Events :
          LET st == RunListeners([didExit |-> didExit, registered |-> registeredCallbacks,
                                  run |-> << >>],
                                 listeners, 1, event, collected)
          IN /\ didExit' = st.didExit
             /\ registeredCallbacks' = st.registered
             /\ fired' = Append(fired, [event |-> event,
                                        live |-> SelectSeq(registeredCallbacks,
                                                           LAMBDA w : IsLive(w, collected)),
                                        run |-> st.run])
    /\ UNCHANGED <<platform, collected, attachedProcessListeners, listeners>>
    /\ UNCHANGED <<loadVars, runVars, calc, objects>>

\* ExitHandlers.ts freshly loaded, on one of the platforms
InitExit(Platforms) ==
    /\ platform \in Platforms
    /\ registeredCallbacks = << >>
    /\ collected = {}
    /\ attachedProcessListeners = << >>
    /\ listeners = << >>
    /\ didExit = << >>
    /\ fired = << >>

(***************************************************************************)
(* What a run of the report leaves alone: the BigDecimal instances of the  *)
(* freshly loaded module, and no exit handler.                             *)
(***************************************************************************)
InitAside == objects = InitialObjects /\ InitExit({"linux"})

(***************************************************************************)
(* The runs of the report: analyze on the records of each input set.       *)
(***************************************************************************)
Init == InitWith(SeqsUpTo(ClassifyRecords, MaxRecords), BOOLEAN, FixedResolvers) /\ InitAside

InitTrend == InitWith(SeqsUpTo(TrendRecords, MaxRecords), BOOLEAN, FixedResolvers) /\ InitAside

InitRank == InitWith(SeqsUpTo(RankRecords, MaxRecords), BOOLEAN, FixedResolvers) /\ InitAside

InitLookup == InitWith(SeqsUpTo(LookupRecords, MaxRecords), BOOLEAN, VariedResolvers) /\ InitAside

\* the classification runs
Spec == Init /\ [][Next]_vars

\* the trend runs
SpecTrend == InitTrend /\ [][Next]_vars

\* the ranking runs
SpecRank == InitRank /\ [][Next]_vars

\* the lookup runs
SpecLookup == InitLookup /\ [][Next]_vars

(***************************************************************************)
(* The BigDecimal methods on their own: no report is loaded, and one       *)
(* expression is evaluated.                                                *)
(***************************************************************************)
InitDecimal == InitWith({<< >>}, {FALSE}, FixedResolvers) /\ InitAside

NextDecimal ==
    \/ EvalPow10
    \/ EvalIsClose
    \/ EvalCompare
    \/ EvalDivide
    \/ EvalAdd
    \/ EvalToFixed
    \/ EvalToString
    \/ EvalForms
    \/ EvalDivRound
    \/ EvalProduct
    \/ EvalConstruct
    \/ EvalPow
    \/ EvalFixedLength
    \/ EvalRounding
    \/ EvalSignificantDigits

SpecDecimal == InitDecimal /\ [][NextDecimal]_vars

(***************************************************************************)
(* getConfig and DmarcReportLoaderParser: the start of a run.  A file name *)
(* is held by its parts: host, separator, domain, the two timestamps and   *)
(* the extension, as in google.com!example.com!1699920000!1700006400.zip.  *)
(***************************************************************************)
\* what a DMARC_* variable may hold: unset, "true" or "false"
EnvValues == {Undefined, "true", "false"}

\* getConfig(), the three switches
getConfig(e) ==
    [sortByTimestamp |-> e.DMARC_SORT_BY_TIMESTAMP # "false",
     includeChart |-> e.DMARC_SORT_BY_TIMESTAMP # "false",
     enableDnsLookups |-> e.DMARC_ENABLE_DNS_LOOKUPS # "false"]

FileName(host, sep, domain, start, end, ext) ==
    [host |-> host, sep |-> sep, domain |-> domain, start |-> start, end |-> end,
     ext |-> ext]

\* \d{10}: the stamp is written with ten digits
IsTenDigits(stamp) == Len(DigitsOf(stamp)) = 10

\* a capture group: a run of digits or other text
Digits(k) == [digits |-> k]

Chars(s) == [chars |-> s]

\* ZIP_FILENAME_PATTERNS, in the order of Object.entries
ZIP_FILENAME_PATTERNS == <<"google", "yahoo", "microsoft">>

\* baseName.match(regex): the capture groups of the match, if any
\*   google:    /google\.com!.*!(\d{10})!\d{10}/
\*   yahoo:     /yahoo\.com-.*-(\d{10})-\d{10}/
\*   microsoft: /(microsoft\.com|outlook\.com)_.*_(\d{10})_\d{10}/
Match(provider, name) ==
    LET stamps == IsTenDigits(name.start) /\ IsTenDigits(name.end)
    IN CASE provider = "google" ->
              IF name.host = "google.com" /\ name.sep = "!" /\ stamps
              THEN Some(<<Digits(name.start)>>) ELSE None
         [] provider = "yahoo" ->
              IF name.host = "yahoo.com" /\ name.sep = "-" /\ stamps
              THEN Some(<<Digits(name.start)>>) ELSE None
         [] provider = "microsoft" ->
              IF name.host \in {"microsoft.com", "outlook.com"} /\ name.sep = "_" /\ stamps
              THEN Some(<<Chars(name.host), Digits(name.start)>>) ELSE None

\* parseInt(group): the number a run of digits denotes, NaN for other text
parseInt(group) ==
    IF "digits" \in DOMAIN group THEN Number(group.digits) ELSE NumberNaN

\* parseZipFilename(reportsDirectory, filename)
parseZipFilename(filename) ==
    LET hits == {i \in 1..Len(ZIP_FILENAME_PATTERNS) :
                    Match(ZIP_FILENAME_PATTERNS[i], filename).present}
    IN IF hits = {}
       THEN [filename |-> filename, timestamp |-> Number(0), provider |-> "unknown"]
       ELSE LET first == CHOOSE i \in hits : \A j \in hits : i <= j
                match == Match(ZIP_FILENAME_PATTERNS[first], filename).value
            IN [filename |-> filename, timestamp |-> parseInt(match[1]),
                provider |-> ZIP_FILENAME_PATTERNS[first]]

IsNaN(number) == number = NumberNaN

\* (a, b) => a.timestamp - b.timestamp, as sort reads it: NaN counts as 0
CompareInfos(a, b) ==
    IF IsNaN(a.timestamp) \/ IsNaN(b.timestamp) THEN 0
    ELSE a.timestamp.value - b.timestamp.value

\* the comparator orders the list consistently: being equal is transitive
ConsistentOn(infos) ==
    \A i, j, k \in 1..Len(infos) :
        CompareInfos(infos[i], infos[j]) = 0 /\ CompareInfos(infos[j], infos[k]) = 0
            => CompareInfos(infos[i], infos[k]) = 0

\* a stable sort by the comparator, one insertion at a time
InsertInfo(front, x) ==
    LET keep == {i \in 1..Len(front) : CompareInfos(front[i], x) <= 0}
        at == IF keep = {} THEN 0 ELSE CHOOSE i \in keep : \A j \in keep : j <= i
    IN SubSeq(front, 1, at) \o <<x>> \o SubSeq(front, at + 1, Len(front))

RECURSIVE InsertInfos(_, _, _)
InsertInfos(front, s, k) ==
    IF k > Len(s) THEN front
    ELSE LET next == InsertInfo(front, s[k])
         IN InOrder(next, InsertInfos(next, s, k + 1))

\* the orders of a list
Orderings(s) ==
    {[i \in 1..Len(s) |-> s[p[i]]] :
        p \in {q \in [1..Len(s) -> 1..Len(s)] :
                  \A i, j \in 1..Len(s) : q[i] = q[j] => i = j}}

\* zipFileInfos.sort(...): the stable order when the comparator is consistent;
\* otherwise the order is left to the implementation, and may be any
SortOutcomes(infos) ==
    IF ConsistentOn(infos) THEN {InsertInfos(<< >>, infos, 1)} ELSE Orderings(infos)

\* files.filter((file) => extname(file) === ".zip").map(parseZipFilename)
ZipFileInfosOf(dir) ==
    LET zipFiles == SelectSeq(dir, LAMBDA file : file.name.ext = ".zip")
    IN [i \in 1..Len(zipFiles) |-> parseZipFilename(zipFiles[i].name)]

\* the loop over zipFileInfos: the records of each file that processZipFile
\* reads, a file it fails on being logged and skipped
RECURSIVE LoadedRecords(_, _, _)
LoadedRecords(dir, infos, k) ==
    IF k > Len(infos) THEN << >>
    ELSE LET file == dir[CHOOSE i \in 1..Len(dir) : dir[i].name = infos[k].filename]
         IN (IF file.readable THEN file.reports ELSE << >>)
            \o LoadedRecords(dir, infos, k + 1)

\* getConfig(), at the start of generateDefaultReport
GetConfig ==
    /\ pc = "config"
    /\ LET config == getConfig(env)
       IN /\ sortByTimestamp' = config.sortByTimestamp
          /\ includeChart' = config.includeChart
          /\ enableDnsLookups' = config.enableDnsLookups
    /\ pc' = "load"
    /\ UNCHANGED <<env, files, zipFileInfos, calc, objects, exitVars>>
    /\ UNCHANGED <<records, dns, result, failingSources, lk, lookupLog, divisors,
                   html, summary, error>>

\* DmarcReportLoaderParser.processDirectory(reportsDirectory, sortByTimestamp)
ProcessDirectory ==
    /\ pc = "load"
    /\ \E order \in (IF sortByTimestamp THEN SortOutcomes(ZipFileInfosOf(files))
                     ELSE {ZipFileInfosOf(files)}) :
          /\ zipFileInfos' = order
          /\ records' = LoadedRecords(files, order, 1)
    /\ pc' = "start"
    /\ UNCHANGED <<env, files, sortByTimestamp, includeChart, calc, objects, exitVars>>
    /\ UNCHANGED <<enableDnsLookups, dns, result, failingSources, lk, lookupLog,
                   divisors, html, summary, error>>


(***************************************************************************)
(* The inputs of the loading runs: an environment, and a reports directory *)
(* of a few files named after the reports they hold.                       *)
(***************************************************************************)
MaxFiles == 3

\* the one report of a file: its range is the range of the file's name
ReportOf(name) ==
    DmarcRecord("example.com", name.host, "r-1", name.start, name.end,
                << DmarcRecordRow(<<8, 8, 8, 8>>, 1, "none", "pass", "fail",
                                  "example.com", Undefined, Undefined) >>)

File(name, readable) ==
    [name |-> name, readable |-> readable, reports |-> << ReportOf(name) >>]

\* reports of Google, Yahoo and Microsoft, an archive named otherwise, an
\* archive that cannot be read, and a file that is no archive
DirectoryFiles ==
    { File(FileName("google.com", "!", "example.com", Midnight, Midnight + SecondsPerDay, ".zip"), TRUE),
      File(FileName("google.com", "!", "example.com", Midnight + SecondsPerDay, Midnight + 2 * SecondsPerDay, ".zip"), TRUE),
      File(FileName("yahoo.com", "-", "example.com", Midnight, Midnight + SecondsPerDay, ".zip"), TRUE),
      File(FileName("yahoo.com", "-", "example.com", Midnight + 2 * SecondsPerDay, Midnight + 3 * SecondsPerDay, ".zip"), FALSE),
      File(FileName("microsoft.com", "_", "example.com", Midnight, Midnight + SecondsPerDay, ".zip"), TRUE),
      File(FileName("microsoft.com", "_", "example.com", Midnight + SecondsPerDay, Midnight + 2 * SecondsPerDay, ".zip"), TRUE),
      File(FileName("mail.example.net", "-", "example.com", Midnight + SecondsPerDay, Midnight + 2 * SecondsPerDay, ".zip"), TRUE),
      File(FileName("google.com", "!", "example.com", Midnight, Midnight + SecondsPerDay, ".xml"), TRUE) }

\* readdir: no two files of a directory have one name
Directories ==
    {dir \in SeqsUpTo(DirectoryFiles, MaxFiles) :
        \A i, j \in 1..Len(dir) : dir[i].name = dir[j].name => i = j}

Environments ==
    [DMARC_SORT_BY_TIMESTAMP : EnvValues, DMARC_INCLUDE_TREND_CHART : EnvValues,
     DMARC_ENABLE_DNS_LOOKUPS : EnvValues]

\* generateDefaultReport is about to start; the defaults of the parameters
\* hold until getConfig has read the environment
InitLoad ==
    /\ env \in Environments
    /\ files \in Directories
    /\ zipFileInfos = << >>
    /\ sortByTimestamp = TRUE
    /\ includeChart = TRUE
    /\ enableDnsLookups = TRUE
    /\ records = << >>
    /\ calc = NoCalc
    /\ InitAside
    /\ dns \in FixedResolvers
    /\ pc = "config"
    /\ result = InitialResult(<< >>, << >>)
    /\ failingSources = << >>
    /\ lk = IdleLookup
    /\ lookupLog = << >>
    /\ divisors = {}
    /\ html = NotRendered
    /\ summary = NotRendered
    /\ error = "none"

NextLoad ==
    \/ GetConfig
    \/ ProcessDirectory
    \/ Next

SpecLoad == InitLoad /\ [][NextLoad]_vars


(***************************************************************************)
(* C18 and C19: the switches of getConfig and the order of loading.        *)
(***************************************************************************)
\* getConfig has read the environment
Configured == pc # "config"

\* what a switch of the environment says: on unless it is "false"
SwitchedOn(value) == value # "false"

\* C18: includeChart is derived from DMARC_INCLUDE_TREND_CHART alone, so that
\* environments differing only in DMARC_SORT_BY_TIMESTAMP agree on it, and
\* the pass-rate chart is in the rendered report exactly when that variable
\* switches it on.
C18_ChartFollowsItsOwnSwitch ==
    /\ Configured => includeChart = SwitchedOn(env.DMARC_INCLUDE_TREND_CHART)
    /\ html.rendered => html.chart = SwitchedOn(env.DMARC_INCLUDE_TREND_CHART)

\* a report rendered with its chart although DMARC_INCLUDE_TREND_CHART is
\* "false" and DMARC_SORT_BY_TIMESTAMP is unset
C18_ChartDrawnThoughSwitchedOff ==
    /\ html.rendered
    /\ html.chart
    /\ env.DMARC_INCLUDE_TREND_CHART = "false"
    /\ env.DMARC_SORT_BY_TIMESTAMP = Undefined

\* processDirectory has returned
Loaded == pc \notin {"config", "load"}

\* the name matches the pattern of Google, Yahoo or Microsoft
IsProviderName(name) ==
    \E i \in 1..Len(ZIP_FILENAME_PATTERNS) : Match(ZIP_FILENAME_PATTERNS[i], name).present

\* C19: parseZipFilename returns the 10-digit start timestamp of every name
\* that matches the Google, Yahoo or Microsoft pattern, and with
\* sortByTimestamp enabled processDirectory processes those files in
\* non-decreasing order of that timestamp.
C19_ProviderFilesInTimestampOrder ==
    Loaded =>
        /\ \A i \in 1..Len(zipFileInfos) :
              IsProviderName(zipFileInfos[i].filename)
                  => zipFileInfos[i].timestamp = Number(zipFileInfos[i].filename.start)
        /\ sortByTimestamp =>
              \A i, j \in 1..Len(zipFileInfos) :
                  /\ i < j
                  /\ IsProviderName(zipFileInfos[i].filename)
                  /\ IsProviderName(zipFileInfos[j].filename)
                  => zipFileInfos[i].filename.start <= zipFileInfos[j].filename.start

\* two Microsoft reports, sorting enabled: both timestamps are NaN and the
\* later report is processed first
C19_MicrosoftLaterReportFirst ==
    /\ Loaded
    /\ sortByTimestamp
    /\ Len(zipFileInfos) = 2
    /\ \A i \in 1..2 : /\ zipFileInfos[i].provider = "microsoft"
                       /\ IsNaN(zipFileInfos[i].timestamp)
    /\ zipFileInfos[1].filename.start > zipFileInfos[2].filename.start
    /\ Len(records) = 2
    /\ records[1].dateRange.begin > records[2].dateRange.begin


(***************************************************************************)
(* The BigDecimal instances under any sequence of calls.                   *)
(***************************************************************************)
NextObjects ==
    \/ CallNew
    \/ CallMethod
    \/ CallToString

SpecObjects == InitDecimal /\ [][NextObjects]_vars

(***************************************************************************)
(* C26: instances are immutable, interning is not observable               *)
(***************************************************************************)
\* a step keeps every instance, and the scaled integer of each
instancesKept ==
    /\ Len(objects') >= Len(objects)
    /\ \A i \in 1..Len(objects) :
          /\ HasN(objects'[i]) = HasN(objects[i])
          /\ HasN(objects[i]) => objects'[i].n = objects[i].n

\* what x.toString() returns
toStringOf(object) == Memoized(object).str.value

\* every interned instance compares equal to a freshly constructed instance
\* of its value and renders the same string
internedAsFresh ==
    \A i \in 1..Len(commonValues) :
        LET fresh == Object(createWithoutCache(commonValues[i]))
        IN /\ Compares("eq", Instance(objects[i].n), Instance(fresh.n))
           /\ Compares("eq", Instance(fresh.n), Instance(objects[i].n))
           /\ toStringOf(objects[i]) = toStringOf(fresh)
           /\ \A length \in 0..DEC :
                 toFixed(objects[i].n, length) = toFixed(fresh.n, length)

\* the memoized string of an instance is the rendering of its scaled integer
memoCurrent ==
    \A i \in 1..Len(objects) :
        objects[i].str.present => objects[i].str.value = Rendering(objects[i])

\* C26: no call changes the scaled integer of an existing instance, the
\* interned instances included; after any sequence of calls every interned
\* instance compares equal to and renders as a freshly constructed instance
\* of its value, and every memoized string is the rendering of the
\* instance's scaled integer.
C26_InstancesImmutable ==
    /\ [](internedAsFresh /\ memoCurrent)
    /\ [][instancesKept]_vars

\* two created instances of the value 0.5 beside the interned one, one of
\* them with its string memoized, and the sentinel's string memoized
C26_CreatedBesideInterned ==
    /\ Len(objects) = SentinelId + 2
    /\ objects[InternedId(Text("", <<0>>, TRUE, <<5>>))].n = 500
    /\ objects[SentinelId + 1] = Memoized(Object(500))
    /\ objects[SentinelId + 2] = Object(500)
    /\ objects[SentinelId].str.present


(***************************************************************************)
(* The exit handlers under any sequence of calls and events.               *)
(***************************************************************************)
InitExitHandlers ==
    /\ InitWith({<< >>}, {FALSE}, FixedResolvers)
    /\ objects = InitialObjects
    /\ InitExit({"linux", "win32"})

NextExit ==
    \/ AttachExitHandlers
    \/ RemoveAllExitHandlers
    \/ Collect
    \/ Emit

SpecExit == InitExitHandlers /\ [][NextExit]_vars

(***************************************************************************)
(* C30: a listener for each trapped event                                  *)
(***************************************************************************)
\* SIGINT, SIGHUP, SIGTERM and beforeExit, the events trapped off Windows
trappedOffWindows == {"SIGINT", "SIGHUP", "SIGTERM", "beforeExit"}

\* the process has a listener for the event
listensTo(event) == \E i \in 1..Len(listeners) : listeners[i].event = event

\* C30: once attachExitHandlers has been called with a callback, the process
\* has a listener for each trapped event; the first event emitted, when it is
\* a trapped one, ran every registered callback that was alive; and no
\* registration is run by more than one event.
C30_EveryTrappedEventRunsCallbacks ==
    /\ (attachedProcessListeners # << >> /\ platform # "win32")
          => \A event \in trappedOffWindows : listensTo(event)
    /\ (fired # << >> /\ platform # "win32" /\ fired[1].event \in trappedOffWindows)
          => fired[1].run = fired[1].live
    /\ \A i, j \in 1..Len(fired) :
          \A k \in 1..Len(fired[i].run), l \in 1..Len(fired[j].run) :
              fired[i].run[k] = fired[j].run[l] => i = j /\ k = l

\* a callback is registered and alive, SIGTERM is the first event, and no
\* callback is run: SIGINT alone has a listener
C30_SigtermRunsNothing ==
    /\ platform = "linux"
    /\ Len(fired) = 1
    /\ fired[1].event = "SIGTERM"
    /\ fired[1].live = <<[ref |-> 1, cb |-> "flush"]>>
    /\ fired[1].run = << >>
    /\ listensTo("SIGINT")
    /\ ~listensTo("SIGTERM")


(***************************************************************************)
(* C29: the date range of the result                                       *)
(***************************************************************************)
\* analyze has returned its result
analysisReturned == pc \notin {"start", "config", "load"} /\ error # "RangeError"

\* C29: for every sequence of records, the empty one included, the result of
\* analyze has dateRange.earliest <= dateRange.latest, earliest being the
\* least begin and latest the greatest end of the records, and the renderer
\* computes the analysis period and the day count from it without failing.
C29_DateRangeOrdered ==
    analysisReturned =>
        /\ result.dateRange.earliest <= result.dateRange.latest
        /\ \A i \in 1..Len(records) :
              /\ result.dateRange.earliest <= records[i].dateRange.begin
              /\ result.dateRange.latest >= records[i].dateRange.end
        /\ records # << >> =>
              /\ \E i \in 1..Len(records) :
                    result.dateRange.earliest = records[i].dateRange.begin
              /\ \E i \in 1..Len(records) :
                    result.dateRange.latest = records[i].dateRange.end
        /\ error # "DateUtilError"

\* no record: earliest stays Number.MAX_SAFE_INTEGER, latest stays 0, and
\* the renderer fails on the day count
C29_EmptyInputNotRendered ==
    /\ records = << >>
    /\ result.dateRange.earliest = MAX_SAFE_INTEGER
    /\ result.dateRange.latest = 0
    /\ pc = "failed"
    /\ error = "DateUtilError"


(***************************************************************************)
(* C27: the trend points against the message total                         *)
(***************************************************************************)
RECURSIVE trendTotal(_)
trendTotal(trends) ==
    IF trends = << >> THEN 0
    ELSE trends[Len(trends)].total + trendTotal(SubSeq(trends, 1, Len(trends) - 1))

RECURSIVE trendPassed(_)
trendPassed(trends) ==
    IF trends = << >> THEN 0
    ELSE trends[Len(trends)].passed + trendPassed(SubSeq(trends, 1, Len(trends) - 1))

\* C27: for any sequence of records, whether or not a range is a whole
\* number of days, the sum of total over the trend points never exceeds
\* totalMessages (nor does the sum of passed exceed passedMessages, or the
\* sum of failed failedMessages): the amortization drops remainders and
\* never adds or double-counts messages.
C27_TrendTotalWithinMessages ==
    analysisReturned =>
        /\ trendTotal(result.trends) <= result.totalMessages
        /\ trendPassed(result.trends) <= result.passedMessages
        /\ trendTotal(result.trends) - trendPassed(result.trends)
              <= result.failedMessages

\* 101 messages over a range of two days and a second: three days of 33
C27_RemainderDropped ==
    /\ analysisReturned
    /\ Len(records) = 1
    /\ records[1].dateRange.end - records[1].dateRange.begin = 172800
    /\ result.totalMessages = 101
    /\ Len(result.trends) = 3
    /\ trendTotal(result.trends) = 99


(***************************************************************************)
(* C28: the counters of the result against each other                      *)
(***************************************************************************)
RECURSIVE mapTotal(_)
mapTotal(map) ==
    IF DOMAIN map = {} THEN 0
    ELSE LET k == CHOOSE x \in DOMAIN map : TRUE
         IN map[k] + mapTotal([x \in DOMAIN map \ {k} |-> map[x]])

RECURSIVE detailTotal(_)
detailTotal(details) ==
    IF details = << >> THEN 0
    ELSE Head(details).count + detailTotal(Tail(details))

\* the rows of the records that are not passed, in the order of the input
RECURSIVE failedRowsOf(_)
failedRowsOf(recs) ==
    IF recs = << >> THEN << >>
    ELSE LET record == Head(recs)
         IN SelectSeq([k \in 1..Len(record.records) |->
                          [reportId |-> record.reportId, row |-> record.records[k]]],
                      LAMBDA e : ~passed(e.row))
            \o failedRowsOf(Tail(recs))

\* C28: after analyze on any sequence of records, passedMessages +
\* failedMessages = totalMessages, bothAligned + dkimAligned + spfAligned =
\* passedMessages, noneAligned = failedMessages, arcAligned <=
\* passedMessages, the volumes of volumeByProvider sum to totalMessages, and
\* failureDetails holds one detail per failed row, their counts summing to
\* failedMessages.
C28_CountersAgree ==
    analysisReturned =>
        LET a == result.domainAlignment
            failedRows == failedRowsOf(records)
        IN /\ result.passedMessages + result.failedMessages = result.totalMessages
           /\ a.bothAligned + a.dkimAligned + a.spfAligned = result.passedMessages
           /\ a.noneAligned = result.failedMessages
           /\ a.arcAligned <= result.passedMessages
           /\ mapTotal(result.volumeByProvider) = result.totalMessages
           /\ detailTotal(result.failureDetails) = result.failedMessages
           /\ Len(result.failureDetails) = Len(failedRows)
           /\ \A i \in 1..Len(failedRows) :
                 \E j \in 1..Len(result.failureDetails) :
                    /\ result.failureDetails[j].reportId = failedRows[i].reportId
                    /\ result.failureDetails[j].ip = failedRows[i].row.sourceIp
                    /\ result.failureDetails[j].count = failedRows[i].row.count

\* two reporting organizations, rows that failed, and a row passed by ARC
\* alone, which is counted as SPF aligned
C28_ArcOnlyAmongFailures ==
    /\ analysisReturned
    /\ Cardinality(DOMAIN result.volumeByProvider) >= 2
    /\ result.failedMessages > 0
    /\ Len(result.failureDetails) >= 1
    /\ result.domainAlignment.arcAligned > 0
    /\ result.domainAlignment.spfAligned >= result.domainAlignment.arcAligned
    /\ \E i \in 1..Len(records) : \E k \in 1..Len(records[i].records) :
          LET recordRow == records[i].records[k]
          IN arcPass(recordRow) /\ ~dkimPass(recordRow) /\ ~spfPass(recordRow)

=============================================================================
